---- MODULE Spec2Model ----
(***************************************************************************)
(* Model of the conversation orchestration core of backend/main.py:        *)
(* the intent classifier, the slot matcher, the contact governor, the      *)
(* session store, the dialogue policy of the two Twilio webhooks, the      *)
(* scheduling finalizer and the call-placement endpoints.                  *)
(*                                                                         *)
(* Text is modelled by TLA+ strings; Len, SubSeq and \o are the string     *)
(* operations TLC provides.  A regular expression is modelled by the set   *)
(* of positions (number of characters consumed) at which a match can end.  *)
(***************************************************************************)
EXTENDS Integers, Sequences, FiniteSets, Bags, TLC

\* ------------------------------------------------------------------------
\* Text primitives (Python str methods and the re module)
\* ------------------------------------------------------------------------

\* Python's None
None == "None"

\* Python's None where the other values are records (a session, a call, a document)
NoObject == [none |-> TRUE]

UpperChars == "ABCDEFGHIJKLMNOPQRSTUVWXYZ"

LowerChars == "abcdefghijklmnopqrstuvwxyz"

DigitChars == "0123456789"

Ch(s, i) == SubSeq(s, i, i)

CharsOf(s) == {Ch(s, i) : i \in 1..Len(s)}

\* str.lower() on one character
LowerCh(c) ==
    IF c \in CharsOf(UpperChars)
    THEN Ch(LowerChars, CHOOSE k \in 1..26 : Ch(UpperChars, k) = c)
    ELSE c

RECURSIVE lower(_)
\* str.lower()
lower(s) == IF s = "" THEN "" ELSE LowerCh(Ch(s, 1)) \o lower(SubSeq(s, 2, Len(s)))

IsSpace(c) == c = " "

RECURSIVE strip(_)
\* str.strip()
strip(s) ==
    IF s = "" THEN ""
    ELSE IF IsSpace(Ch(s, 1)) THEN strip(SubSeq(s, 2, Len(s)))
    ELSE IF IsSpace(Ch(s, Len(s))) THEN strip(SubSeq(s, 1, Len(s) - 1))
    ELSE s

RECURSIVE split(_)
\* str.split(): the sequence of maximal runs of non-space characters
split(s) ==
    IF s = "" THEN << >>
    ELSE IF IsSpace(Ch(s, 1)) THEN split(SubSeq(s, 2, Len(s)))
    ELSE LET e == CHOOSE k \in 1..Len(s) :
                     /\ \A j \in 1..k : ~IsSpace(Ch(s, j))
                     /\ (k = Len(s) \/ IsSpace(Ch(s, k + 1)))
         IN  << SubSeq(s, 1, e) >> \o split(SubSeq(s, e + 1, Len(s)))

\* Python's  w in t  for strings: w occurs in t as a substring
Contains(w, t) ==
    \E i \in 1..(Len(t) - Len(w) + 1) : SubSeq(t, i, i + Len(w) - 1) = w

\* \w of the re module (ASCII)
IsWordCh(c) == c \in CharsOf(LowerChars) \cup CharsOf(UpperChars) \cup CharsOf(DigitChars) \cup {"_"}

IsDigitCh(c) == c \in CharsOf(DigitChars)

\* is the character at index i of t a word character (FALSE outside t)
WordAt(t, i) == i >= 1 /\ i <= Len(t) /\ IsWordCh(Ch(t, i))

\* \b holds after p characters of t
Boundary(t, p) == WordAt(t, p) # WordAt(t, p + 1)

\* a literal: end positions of w matched after p characters
Lit(t, w, p) ==
    IF p + Len(w) <= Len(t) /\ SubSeq(t, p + 1, p + Len(w)) = w THEN {p + Len(w)} ELSE {}

\* (w1|w2|...)
Alt(t, ws, p) == UNION {Lit(t, w, p) : w \in ws}

\* \s*
Spaces(t, p) == {q \in p..Len(t) : \A k \in (p + 1)..q : IsSpace(Ch(t, k))}

\* \d{1,2}
Digits12(t, p) == {q \in {p + 1, p + 2} : q <= Len(t) /\ \A k \in (p + 1)..q : IsDigitCh(Ch(t, k))}

\* .*
DotStar(t, p) == p..Len(t)

\* \b
B(t, p) == IF Boundary(t, p) THEN {p} ELSE {}

\* sequencing: continue with F from every end position in S
Then(S, F(_)) == UNION {F(q) : q \in S}

\* \b(w1|w2|...)\b
BWordB(t, ws, p) == Then(Then(B(t, p), LAMBDA q : Alt(t, ws, q)), LAMBDA q : B(t, q))

\* re.search: the pattern M matches somewhere in t
Search(t, M(_)) == \E p \in 0..Len(t) : M(p) # {}

\* re.search(r'\b(w1|w2|...)\b', t)
SearchWords(t, ws) == Search(t, LAMBDA p : BWordB(t, ws, p))

\* ------------------------------------------------------------------------
\* Intent classifier and slot matcher
\* ------------------------------------------------------------------------

\* confidences are in hundredths: 95 stands for 0.95
TIME_SLOTS == << "Monday at 10 AM", "Tuesday at 2 PM", "Wednesday at 11 AM", "Thursday at 3 PM" >>

Weekdays == {"monday", "tuesday", "wednesday", "thursday", "friday", "saturday", "sunday"}

\* confirmation_patterns, in list order
confirmation_patterns == <<
    [words |-> {"yes", "yeah", "yep", "yup", "absolutely", "definitely", "sure", "of course",
                "sounds good", "perfect", "great", "excellent"}, conf |-> 95],
    [words |-> {"ok", "okay", "alright", "fine", "good", "works for me", "that works",
                "i can do that"}, conf |-> 85],
    [words |-> {"confirm", "confirmed", "book", "schedule", "set it up", "let's do it"}, conf |-> 90],
    [words |-> {"available", "free", "open"}, conf |-> 75] >>

\* the first three rejection_patterns, in list order (the fourth is SorryNot)
rejection_patterns == <<
    [words |-> {"no", "nope", "not really", "can't", "cannot", "unable", "unavailable"}, conf |-> 90],
    [words |-> {"busy", "booked", "occupied", "not available", "not free"}, conf |-> 85],
    [words |-> {"different time", "another time", "reschedule", "change", "doesn't work",
                "won't work"}, conf |-> 80] >>

\* r'\b(sorry|unfortunately|afraid)\b.*\b(can\'t|cannot|not|no)\b'
SorryNot(t, p) ==
    Then(Then(BWordB(t, {"sorry", "unfortunately", "afraid"}, p), LAMBDA q : DotStar(t, q)),
         LAMBDA q : BWordB(t, {"can't", "cannot", "not", "no"}, q))

\* r'\b(<weekday>)\b.*\b(at|@)?\s*(\d{1,2})\s*(am|pm)\b'
DayThenTime(t, p) ==
    Then(Then(Then(Then(Then(Then(Then(Then(
        BWordB(t, Weekdays, p),
        LAMBDA q : DotStar(t, q)),
        LAMBDA q : B(t, q)),
        LAMBDA q : Alt(t, {"at", "@"}, q) \cup {q}),
        LAMBDA q : Spaces(t, q)),
        LAMBDA q : Digits12(t, q)),
        LAMBDA q : Spaces(t, q)),
        LAMBDA q : Alt(t, {"am", "pm"}, q)),
        LAMBDA q : B(t, q))

\* r'\b(\d{1,2})\s*(<suffix>)\b'
ClockTime(t, suffixes, p) ==
    Then(Then(Then(Then(
        B(t, p),
        LAMBDA q : Digits12(t, q)),
        LAMBDA q : Spaces(t, q)),
        LAMBDA q : Alt(t, suffixes, q)),
        LAMBDA q : B(t, q))

\* r'\b(\d{1,2})\s*(am|pm)\b.*\b(<weekday>)\b'
TimeThenDay(t, p) ==
    Then(Then(ClockTime(t, {"am", "pm"}, p), LAMBDA q : DotStar(t, q)),
         LAMBDA q : BWordB(t, Weekdays, q))

\* the loop over time_patterns: the confidence of the first pattern found, 0 if none
TimeMatch(t) ==
    IF Search(t, LAMBDA p : DayThenTime(t, p)) THEN 95
    ELSE IF Search(t, LAMBDA p : TimeThenDay(t, p)) THEN 95
    ELSE IF SearchWords(t, Weekdays) THEN 80
    ELSE IF Search(t, LAMBDA p : ClockTime(t, {"am", "pm", "o'clock"}, p)) THEN 75
    ELSE IF SearchWords(t, {"morning", "afternoon", "evening", "noon", "midnight"}) THEN 60
    ELSE 0

\* a loop over a list of word patterns: the confidence of the first one found, 0 if none
FirstWordsMatch(t, patterns) ==
    IF \E k \in 1..Len(patterns) : SearchWords(t, patterns[k].words)
    THEN patterns[CHOOSE k \in 1..Len(patterns) :
                      /\ SearchWords(t, patterns[k].words)
                      /\ \A j \in 1..(k - 1) : ~SearchWords(t, patterns[j].words)].conf
    ELSE 0

RejectionMatch(t) ==
    IF FirstWordsMatch(t, rejection_patterns) # 0 THEN FirstWordsMatch(t, rejection_patterns)
    ELSE IF Search(t, LAMBDA p : SorryNot(t, p)) THEN 80
    ELSE 0

availability_patterns == <<
    [words |-> {"let me check", "check my calendar", "look at my schedule", "see what", "when am i"},
     conf |-> 70],
    [words |-> {"what times", "what slots", "what options", "available times", "available slots"},
     conf |-> 80] >>

politeness_patterns == <<
    [words |-> {"thank you", "thanks", "appreciate", "grateful"}, conf |-> 60],
    [words |-> {"hello", "hi", "hey", "good morning", "good afternoon"}, conf |-> 60],
    [words |-> {"sorry", "excuse me", "pardon"}, conf |-> 50] >>

\* a classifier that looks for a confirmation before it looks for a time
analyze_intent_confirmation_first(text) ==
    LET t == strip(lower(text)) IN
    IF FirstWordsMatch(t, confirmation_patterns) # 0
    THEN [intent |-> "confirmation", conf |-> FirstWordsMatch(t, confirmation_patterns)]
    ELSE IF TimeMatch(t) # 0 THEN [intent |-> "time_mention", conf |-> TimeMatch(t)]
    ELSE IF RejectionMatch(t) # 0 THEN [intent |-> "rejection", conf |-> RejectionMatch(t)]
    ELSE IF FirstWordsMatch(t, availability_patterns) # 0
         THEN [intent |-> "checking_availability", conf |-> FirstWordsMatch(t, availability_patterns)]
    ELSE IF FirstWordsMatch(t, politeness_patterns) # 0
         THEN [intent |-> "polite_response", conf |-> FirstWordsMatch(t, politeness_patterns)]
    ELSE IF Len(t) >= 3 /\ Len(split(t)) = 1 /\ strip(t) \in {"no", "nope", "nah"}
         THEN [intent |-> "rejection", conf |-> 80]
    ELSE [intent |-> "unclear", conf |-> 30]

\* analyze_intent(text): (intent, confidence)
analyze_intent(text) ==
    LET t == strip(lower(text)) IN
    IF TimeMatch(t) # 0 THEN [intent |-> "time_mention", conf |-> TimeMatch(t)]
    ELSE IF FirstWordsMatch(t, confirmation_patterns) # 0
         THEN [intent |-> "confirmation", conf |-> FirstWordsMatch(t, confirmation_patterns)]
    ELSE IF RejectionMatch(t) # 0 THEN [intent |-> "rejection", conf |-> RejectionMatch(t)]
    ELSE IF FirstWordsMatch(t, availability_patterns) # 0
         THEN [intent |-> "checking_availability", conf |-> FirstWordsMatch(t, availability_patterns)]
    ELSE IF FirstWordsMatch(t, politeness_patterns) # 0
         THEN [intent |-> "polite_response", conf |-> FirstWordsMatch(t, politeness_patterns)]
    ELSE IF Len(t) < 3 THEN [intent |-> "unclear", conf |-> 10]
    ELSE IF Len(split(t)) = 1
         THEN IF strip(t) \in {"yes", "yep", "yeah", "ok", "okay", "sure", "fine", "good"}
              THEN [intent |-> "confirmation", conf |-> 80]
              ELSE IF strip(t) \in {"no", "nope", "nah"}
                   THEN [intent |-> "rejection", conf |-> 80]
                   ELSE [intent |-> "unclear", conf |-> 40]
    ELSE IF Len(split(t)) >= 2 THEN [intent |-> "unclear", conf |-> 50]
    ELSE [intent |-> "unclear", conf |-> 30]

\* find_mentioned_time_slot(text, available_slots): the first slot one of whose
\* words occurs in the lower-cased text as a substring, None if there is none
find_mentioned_time_slot(text, available_slots) ==
    LET text_lower == lower(text)
        hit(k) == LET slot_words == split(lower(available_slots[k]))
                  IN  \E j \in 1..Len(slot_words) : Contains(slot_words[j], text_lower)
    IN  IF \E k \in 1..Len(available_slots) : hit(k)
        THEN available_slots[CHOOSE k \in 1..Len(available_slots) :
                                 hit(k) /\ \A j \in 1..(k - 1) : ~hit(j)]
        ELSE None

\* ------------------------------------------------------------------------
\* Identities, bounds and the environment's inputs
\* ------------------------------------------------------------------------

\* the most turns a session records (the guard of every append)
MaxTurns == 7

\* the most call-started callbacks delivered for one call
MaxStarts == 2

\* the last value of the clock
MaxTime == 1

\* calls the dialogue specification opens
MaxCalls == 1

\* the largest total_attempts of a document the governor specification starts from
MaxAttempts == 4

\* the most gather-again answers the provider collects for one call
MaxGathers == 7

\* ObjectIds of the documents of the shortlistedcandidates collection
CandIds == {"c1"}

\* the phone number of our own Twilio line
TWILIO_PHONE_NUMBER == "ptw"

\* the stored phone number of a candidate
PhoneOf(c) == "p1"

\* numbers that call in: a stored candidate's and a stranger's
CallerPhones == {"p1", "p0"}

\* the call identifiers the telephony provider hands out, in the order it hands them out
CallSidSeq == << "CA1", "CA2" >>

CallSids == {CallSidSeq[i] : i \in 1..Len(CallSidSeq)}

\* form_data.get("CallSid", "unknown"): the call id a webhook uses when the callback
\* carries none
UnknownSid == "unknown"

\* the keys the session map and the conversations collection may hold
SessionKeys == CallSids \cup {UnknownSid}

\* provider outcomes of one confirmation email: delivered by an API, or only logged
\* for manual follow-up because every provider failed
EmailOutcomes == {"sent", "logged"}

\* every outcome of the confirmation step: also the SMTP settings are missing
\* ("unconfigured"), the candidate has no email address ("no_email"), or composing the
\* message raised ("failed")
NotificationOutcomes == EmailOutcomes \cup {"unconfigured", "no_email", "failed"}

\* concurrent call-placement requests
Requests == {"r1", "r2"}

\* transcripts the provider may deliver (SpeechResult)
Utterances == {"", "no", "yes", " yes that works ", "yes option 2", "tuesday",
               "Yes, Tuesday at 2 PM works great", "nope", "friday", "maybe", "mondays"}

\* transcript confidences the provider may deliver (Confidence), in hundredths
Confidences == {29, 30}

\* stands for a Confidence field that float() rejects (no number is delivered as -1)
NotANumber == -1

\* the name of the database save_conversation_session writes (config MONGODB_DB)
SaveDb == "ai_interview_schedule"

\* the name of the database load_session_from_db reads
LoadDb == "interview_scheduler"

DbNames == {SaveDb, LoadDb}

VARIABLES
    now,                    \* the clock datetime.now() reads
    calls,                  \* the provider's calls: sid -> None or [dir, peer]
    conversation_sessions,  \* the process-wide session map: sid -> None or session
    conversations,          \* the conversations collections: db -> sid -> None or document
    candidates,             \* the shortlistedcandidates collection: id -> document
    system_logs,            \* the INTERVIEW_SCHEDULED entries of system_logs
    notifications,          \* the confirmation emails requested, in order
    procs,                  \* the call-placement requests in flight
    response,               \* the TwiML last returned by a webhook
    delivered               \* the provider's record of the speech callback it last delivered

vars == << now, calls, conversation_sessions, conversations, candidates, system_logs,
           notifications, procs, response, delivered >>

\* ------------------------------------------------------------------------
\* Candidate documents
\* ------------------------------------------------------------------------

\* call_tracking.interview_details: state is "absent" (no key), "null" or "set"
NoDetails(state) ==
    [state |-> state, scheduled_slot |-> None, call_sid |-> None, email_sent |-> FALSE,
     scheduled_at |-> 0, email_status |-> None]

\* a shortlisted candidate that was never called: no call_tracking key
FreshDoc ==
    [has_ct |-> FALSE, has_counters |-> FALSE, total_attempts |-> 0, max_attempts |-> 0,
     status |-> None, call_history |-> << >>, details |-> NoDetails("absent"),
     interviewStatus |-> None, scheduledInterviewDate |-> None]

\* the max_attempts a new call_tracking record gets, and the default read for a missing one
DefaultMaxAttempts == 3

\* ObjectId(candidate_id) succeeds
IsObjectId(candidate_id) == candidate_id \in CandIds

\* find_candidate_by_phone(phone_number): the candidate's id, None if no document matches
find_candidate_by_phone(phone) ==
    IF \E c \in CandIds : PhoneOf(c) = phone
    THEN CHOOSE c \in CandIds : PhoneOf(c) = phone
    ELSE None

\* the truth value Python gives call_tracking.get("interview_details")
DetailsTruthy(doc) == doc.details.state = "set"

\* a tracking update that counts the attempt without appending it to the history
TrackingUpdateNoAppend(doc, call_sid) ==
    LET d0 == IF doc.has_ct THEN doc
              ELSE [doc EXCEPT !.has_ct = TRUE, !.has_counters = TRUE, !.total_attempts = 0,
                               !.max_attempts = DefaultMaxAttempts, !.status = "active",
                               !.call_history = << >>, !.details = NoDetails("null")]
        d1 == [d0 EXCEPT !.total_attempts = @ + 1]
    IN  IF doc.has_ct /\ ~doc.has_counters THEN NoObject
        ELSE IF d1.total_attempts >= d1.max_attempts /\ ~DetailsTruthy(d1)
             THEN [d1 EXCEPT !.status = "max_attempts"]
             ELSE d1

\* update_candidate_call_tracking, after find_one: the document it goes on to $set,
\* or None when the update raises (call_tracking without its counters: KeyError)
TrackingUpdate(doc, call_sid) ==
    LET d0 == IF doc.has_ct THEN doc
              ELSE [doc EXCEPT !.has_ct = TRUE, !.has_counters = TRUE, !.total_attempts = 0,
                               !.max_attempts = DefaultMaxAttempts, !.status = "active",
                               !.call_history = << >>, !.details = NoDetails("null")]
        d1 == [d0 EXCEPT !.total_attempts = @ + 1, !.call_history = Append(@, call_sid)]
    IN  IF doc.has_ct /\ ~doc.has_counters THEN NoObject
        ELSE IF d1.total_attempts >= d1.max_attempts /\ ~DetailsTruthy(d1)
             THEN [d1 EXCEPT !.status = "max_attempts"]
             ELSE d1

\* coll.update_one({"_id": ...}, {"$set": doc}): every key of doc replaces the stored one
SetWholeDoc(stored, doc) ==
    [doc EXCEPT !.interviewStatus = IF doc.interviewStatus = None THEN stored.interviewStatus ELSE @,
                !.scheduledInterviewDate =
                    IF doc.scheduledInterviewDate = None THEN stored.scheduledInterviewDate ELSE @]

\* a schedule write that waits for the confirmation email: nothing is written unless it was sent
InterviewScheduledUpdateIfSent(doc, slot, call_sid, email_sent, t) ==
    IF email_sent
    THEN [doc EXCEPT !.has_ct = TRUE, !.status = "interview_scheduled",
                     !.details = [state |-> "set", scheduled_slot |-> slot, call_sid |-> call_sid,
                                  email_sent |-> email_sent, scheduled_at |-> t,
                                  email_status |-> None]]
    ELSE doc

\* update_candidate_interview_scheduled: the $set of status and interview_details
InterviewScheduledUpdate(doc, slot, call_sid, email_sent, t) ==
    [doc EXCEPT !.has_ct = TRUE, !.status = "interview_scheduled",
                !.details = [state |-> "set", scheduled_slot |-> slot, call_sid |-> call_sid,
                             email_sent |-> email_sent, scheduled_at |-> t,
                             email_status |-> None]]

\* an email-status update that also counts an attempt
EmailStatusUpdateCounting(doc, email_status) ==
    LET d0 == IF doc.details.state = "set" THEN doc
              ELSE [doc EXCEPT !.has_ct = TRUE, !.details = NoDetails("set")]
    IN  [d0 EXCEPT !.has_ct = TRUE, !.details.email_status = email_status,
                   !.has_counters = TRUE, !.total_attempts = @ + 1]

\* update_candidate_email_status: interview_details initialised when missing or null,
\* then its email_status set
EmailStatusUpdate(doc, email_status) ==
    LET d0 == IF doc.details.state = "set" THEN doc
              ELSE [doc EXCEPT !.has_ct = TRUE, !.details = NoDetails("set")]
    IN  [d0 EXCEPT !.has_ct = TRUE, !.details.email_status = email_status]

\* update_interview_status: the $set of interviewStatus and, with a slot, scheduledInterviewDate
InterviewStatusUpdate(doc, status, confirmed_slot) ==
    [doc EXCEPT !.interviewStatus = status,
                !.scheduledInterviewDate = IF confirmed_slot = None THEN @ ELSE confirmed_slot]

\* a governor that still allows a call when total_attempts has reached max_attempts
get_candidate_call_status_late(doc) ==
    LET total_attempts == IF doc.has_counters THEN doc.total_attempts ELSE 0
        max_attempts == IF doc.has_counters THEN doc.max_attempts ELSE DefaultMaxAttempts
        status == IF doc.has_ct /\ doc.status # None THEN doc.status ELSE "active"
    IN  IF status = "interview_scheduled"
        THEN [can_call |-> FALSE, reason |-> "Interview already scheduled",
              attempts |-> total_attempts, status |-> status]
        ELSE IF total_attempts > max_attempts
        THEN [can_call |-> FALSE, reason |-> "Maximum attempts reached",
              attempts |-> total_attempts, status |-> "max_attempts"]
        ELSE [can_call |-> TRUE, reason |-> "Can receive calls",
              attempts |-> total_attempts, status |-> status]

\* get_candidate_call_status for a stored document
get_candidate_call_status(doc) ==
    LET total_attempts == IF doc.has_counters THEN doc.total_attempts ELSE 0
        max_attempts == IF doc.has_counters THEN doc.max_attempts ELSE DefaultMaxAttempts
        status == IF doc.has_ct /\ doc.status # None THEN doc.status ELSE "active"
    IN  IF status = "interview_scheduled"
        THEN [can_call |-> FALSE, reason |-> "Interview already scheduled",
              attempts |-> total_attempts, status |-> status]
        ELSE IF total_attempts >= max_attempts
        THEN [can_call |-> FALSE, reason |-> "Maximum attempts reached",
              attempts |-> total_attempts, status |-> "max_attempts"]
        ELSE [can_call |-> TRUE, reason |-> "Can receive calls",
              attempts |-> total_attempts, status |-> status]

\* get_candidate_scheduling_status for a stored candidate: interviewStatus with its
\* default, scheduledInterviewDate, interview_details.get("confirmed_slot") (no write
\* that is left on the document has this key: the schedule writes $set a dict whose
\* key is scheduled_slot) and email_status.get("sent", False)
get_candidate_scheduling_status(doc) ==
    [interview_status |-> IF doc.interviewStatus = None THEN "not_scheduled"
                          ELSE doc.interviewStatus,
     scheduled_date |-> doc.scheduledInterviewDate,
     interview_slot_confirmed |-> None,
     confirmation_sent |-> doc.has_ct /\ doc.details.state = "set"
                           /\ doc.details.email_status = "delivered"]

\* determine_overall_status(scheduling_status, call_status)["status"]
determine_overall_status(scheduling_status, call_status) ==
    IF scheduling_status.interview_status = "scheduled" /\ scheduling_status.confirmation_sent
    THEN "interview_scheduled_confirmed"
    ELSE IF scheduling_status.interview_status = "scheduled"
    THEN "interview_scheduled_pending"
    ELSE IF call_status.attempts >= 3 THEN "max_attempts_reached"
    ELSE IF call_status.attempts > 0 THEN "in_progress"
    ELSE "not_contacted"

\* a well-formed ObjectId that no document of the collection has
MissingId == "c0"

\* a candidate id ObjectId() rejects
MalformedId == "not-an-id"

\* the candidate ids a request may carry
RequestedIds == CandIds \cup {MissingId, MalformedId}

\* the store as get_candidate_call_status finds it: "ok"; "unconfigured" (MONGODB_URI is
\* not set); "bad_uri" (MongoClient(...) raises on the URI); "unreachable" (the client
\* is built lazily, find_one raises when no server answers)
StoreConditions == {"ok", "unconfigured", "bad_uri", "unreachable"}

\* get_candidate_call_status(candidate_id) from its first line: ObjectId(candidate_id)
\* and find_one share one try, whose except answers "Invalid candidate ID format"
get_candidate_call_status_by_id(candidate_id, cands, store) ==
    IF store = "unconfigured"
    THEN [can_call |-> TRUE, reason |-> "MongoDB not configured", attempts |-> 0, status |-> None]
    ELSE IF store = "bad_uri"
    THEN [can_call |-> TRUE, reason |-> "Error checking status", attempts |-> 0, status |-> None]
    ELSE IF candidate_id = MalformedId \/ store = "unreachable"
    THEN [can_call |-> FALSE, reason |-> "Invalid candidate ID format", attempts |-> 0,
          status |-> None]
    ELSE IF candidate_id \notin CandIds
    THEN [can_call |-> TRUE, reason |-> "New candidate", attempts |-> 0, status |-> None]
    ELSE get_candidate_call_status(cands[candidate_id])

\* GET /candidate-status/{candidate_id} for a stored candidate: scheduling_status and
\* overall_status of the answer
get_comprehensive_candidate_status(doc) ==
    [scheduling_status |-> get_candidate_scheduling_status(doc),
     overall_status |-> determine_overall_status(get_candidate_scheduling_status(doc),
                                                 get_candidate_call_status(doc))]

\* ------------------------------------------------------------------------
\* Session store
\* ------------------------------------------------------------------------

\* session.candidate: None, or the dict of a stored candidate; src tells which lookup
\* built it: "phone" (find_candidate_by_phone: has the key id) or "id"
\* (fetch_candidate_by_id: has raw but no key id)
NoCandidate == [src |-> "none", id |-> None]

CandidateByPhone(phone) ==
    IF find_candidate_by_phone(phone) = None THEN NoCandidate
    ELSE [src |-> "phone", id |-> find_candidate_by_phone(phone)]

\* ConversationSession(call_sid, candidate_phone, start_time, turns=[], candidate)
NewSession(candidate_phone, candidate) ==
    [candidate_phone |-> candidate_phone, status |-> "active", confirmed_slot |-> None,
     turns |-> << >>, candidate |-> candidate]

\* the name of the global CANDIDATE, used wherever session.candidate is None
DefaultCandidate == "default"

\* save_conversation_session: the document that replaces the stored one (upsert)
SessionDoc(session) ==
    [candidate_id |-> IF session.candidate.src = "phone" THEN session.candidate.id ELSE None,
     candidate_name |-> IF session.candidate.src = "none" THEN DefaultCandidate
                        ELSE session.candidate.id,
     candidate_phone |-> session.candidate_phone, status |-> session.status,
     confirmed_slot |-> session.confirmed_slot, turns |-> session.turns]

save_conversation_session(convs, call_sid, session) ==
    [convs EXCEPT ![SaveDb][call_sid] = SessionDoc(session)]

\* load_session_from_db: the session rebuilt from the stored document, None if there is none
load_session_from_db(convs, call_sid) ==
    IF convs[LoadDb][call_sid] = NoObject THEN NoObject
    ELSE LET d == convs[LoadDb][call_sid]
         IN  [candidate_phone |-> d.candidate_phone, status |-> d.status,
              confirmed_slot |-> d.confirmed_slot, turns |-> d.turns,
              candidate |-> NoCandidate]

\* get_or_create_session: the session, with the session map and the store it leaves
get_or_create_session(cache, convs, call_sid, candidate_phone, candidate) ==
    IF cache[call_sid] # NoObject
    THEN [session |-> cache[call_sid], cache |-> cache, convs |-> convs]
    ELSE IF load_session_from_db(convs, call_sid) # NoObject
    THEN LET loaded == load_session_from_db(convs, call_sid)
             session == IF candidate # NoCandidate /\ loaded.candidate = NoCandidate
                        THEN [loaded EXCEPT !.candidate = candidate] ELSE loaded
         IN  [session |-> session, cache |-> [cache EXCEPT ![call_sid] = session],
              convs |-> IF session # loaded
                        THEN save_conversation_session(convs, call_sid, session) ELSE convs]
    ELSE LET session == NewSession(candidate_phone, candidate)
         IN  [session |-> session, cache |-> [cache EXCEPT ![call_sid] = session],
              convs |-> save_conversation_session(convs, call_sid, session)]

\* ConversationTurn: turn_number and whether candidate_input is the [CALL INITIATED] marker
Turn(turn_number, synthetic) == [turn_number |-> turn_number, synthetic |-> synthetic]

\* the From and To fields the provider sends for a call
FromOf(call) == IF call.dir = "out" THEN TWILIO_PHONE_NUMBER ELSE call.peer

ToOf(call) == IF call.dir = "out" THEN call.peer ELSE TWILIO_PHONE_NUMBER

Starts(session) == Cardinality({i \in 1..Len(session.turns) : session.turns[i].synthetic})

\* ------------------------------------------------------------------------
\* Scheduling finalizer (the two commit paths of process_speech)
\* ------------------------------------------------------------------------

\* candidate_id = f"phone_{session.candidate_phone}"
SyntheticId(phone) == "phone_" \o phone

\* one more occurrence of e in the bag
BagAdd(bag, e) == bag (+) SetToBag({e})

\* send_interview_confirmation_email(candidate, slot, call_sid) with its outcome: when
\* the message goes to the providers the request joins the outbox; the recipient's
\* document gets the email status (only a stored candidate has a document); without
\* SMTP settings or an email address nothing is requested and nothing is written
SendConfirmation(cands, notifs, candidate, slot, call_sid, outcome) ==
    IF outcome \in {"unconfigured", "no_email"}
    THEN [candidates |-> cands, notifications |-> notifs, email_sent |-> FALSE]
    ELSE [candidates |->
              IF candidate.src = "none" THEN cands
              ELSE [cands EXCEPT ![candidate.id] =
                        EmailStatusUpdate(@, IF outcome = "sent" THEN "delivered"
                                             ELSE IF outcome = "logged"
                                             THEN "logged_for_manual_processing"
                                             ELSE "failed")],
          notifications |->
              IF outcome = "failed" THEN notifs
              ELSE BagAdd(notifs, [to |-> IF candidate.src = "none" THEN DefaultCandidate
                                          ELSE candidate.id,
                                   slot |-> slot, call_sid |-> call_sid]),
          email_sent |-> outcome = "sent"]

\* update_candidate_interview_scheduled(candidate_id, interview_details): a synthetic
\* id matches no document
update_candidate_interview_scheduled(cands, candidate_id, slot, call_sid, email_sent, t) ==
    IF IsObjectId(candidate_id)
    THEN [cands EXCEPT ![candidate_id] = InterviewScheduledUpdate(@, slot, call_sid, email_sent, t)]
    ELSE cands

\* update_interview_status(candidate_id, status, confirmed_slot, call_sid)
update_interview_status(cands, candidate_id, status, confirmed_slot) ==
    IF IsObjectId(candidate_id)
    THEN [cands EXCEPT ![candidate_id] = InterviewStatusUpdate(@, status, confirmed_slot)]
    ELSE cands

\* the branch  intent == "confirmation" and a slot was found  of the scheduling stage
CommitConfirmed(st, slot, call_sid, outcome, t) ==
    LET s1 == [st.session EXCEPT !.confirmed_slot = slot, !.status = "completed"]
        found == find_candidate_by_phone(s1.candidate_phone)
        byPhone == s1.candidate.src # "phone" /\ found # None
        candidate == IF byPhone THEN [src |-> "phone", id |-> found] ELSE s1.candidate
        candidate_id == IF candidate.src = "phone" THEN candidate.id
                        ELSE SyntheticId(s1.candidate_phone)
        mail == SendConfirmation(st.candidates, st.notifications, candidate, slot, call_sid, outcome)
        \* the dict passed here has the key confirmed_slot, not scheduled_slot, and no email_sent
        c1 == update_candidate_interview_scheduled(mail.candidates, candidate_id, None, call_sid, FALSE, t)
        c2 == update_interview_status(c1, candidate_id, "interview_scheduled", slot)
        \* save_interview_schedule
        c3 == update_candidate_interview_scheduled(c2, candidate_id, slot, call_sid, mail.email_sent, t)
    IN  [session |-> [s1 EXCEPT !.candidate = candidate],
         candidates |-> c3,
         notifications |-> mail.notifications,
         system_logs |-> BagAdd(st.system_logs,
                                [candidate_id |-> candidate_id, call_sid |-> call_sid, slot |-> slot]),
         next_action |-> "end_call", say |-> "scheduled"]

\* a day-mention branch that completes the session without recording the slot
CommitDayMentionUnrecorded(st, slot, call_sid, outcome, t) ==
    [session |-> [st.session EXCEPT !.status = "completed"],
     candidates |-> st.candidates,
     notifications |-> st.notifications,
     system_logs |-> st.system_logs,
     next_action |-> "end_call", say |-> "scheduled"]

\* the branch  a weekday of the catalog is named and a slot was found
CommitDayMention(st, slot, call_sid, outcome, t) ==
    LET s1 == [st.session EXCEPT !.confirmed_slot = slot, !.status = "completed"]
        found == find_candidate_by_phone(s1.candidate_phone)
        byPhone == s1.candidate.src = "none" /\ found # None
        candidate == IF byPhone THEN [src |-> "phone", id |-> found] ELSE s1.candidate
        candidate_id == IF candidate.src # "none" THEN candidate.id
                        ELSE SyntheticId(s1.candidate_phone)
        mail == SendConfirmation(st.candidates, st.notifications, candidate, slot, call_sid, outcome)
        c1 == update_candidate_interview_scheduled(mail.candidates, candidate_id, slot, call_sid,
                                                   mail.email_sent, t)
        \* update_result is true when a document was matched: scheduled_at makes every
        \* matched update a modification
        c2 == IF IsObjectId(candidate_id)
              THEN update_interview_status(c1, candidate_id, "interview_scheduled", slot)
              ELSE c1
    IN  [session |-> [s1 EXCEPT !.candidate = candidate],
         candidates |-> c2,
         notifications |-> mail.notifications,
         system_logs |-> BagAdd(st.system_logs,
                                [candidate_id |-> candidate_id, call_sid |-> call_sid, slot |-> slot]),
         next_action |-> "end_call", say |-> "scheduled"]

\* ------------------------------------------------------------------------
\* Webhooks
\* ------------------------------------------------------------------------

\* the TwiML a webhook returns, for which call and of which kind: "greeting" (greeting
\* and gather), "retry" (the didn't-hear-that gather), "gather" (reply and gather) or
\* "hangup" (reply and hang up); say is the line spoken first: the greeting, "retry",
\* "scheduled" (the slot is confirmed), "closing" (the line of the closing stage), "cap"
\* (the line of the turn cap), "reply" (any other prompt), "error" (the apology of
\* /twilio-process) or "difficulties" (the apology of /twilio-voice)
Twiml(call_sid, kind, say) == [call_sid |-> call_sid, kind |-> kind, say |-> say]

\* get_ai_greeting(candidate): the greeting is made of the name, the position and the
\* company of the candidate, of the global CANDIDATE when the session has none
get_ai_greeting(candidate) ==
    "Hello " \o (IF candidate.src = "none" THEN DefaultCandidate ELSE candidate.id)

\* an except block that says its line and listens again
ErrorTwimlGather(call_sid, webhook) ==
    Twiml(call_sid, "gather", IF webhook = "twilio-process" THEN "error" ELSE "difficulties")

\* the except blocks of the two webhooks: a fixed line and a hangup
ErrorTwiml(call_sid, webhook) ==
    Twiml(call_sid, "hangup", IF webhook = "twilio-process" THEN "error" ELSE "difficulties")

\* request.form() raises in a webhook (the body cannot be parsed, the client went away):
\* no field was read
unreadable_form(call_sid, webhook) ==
    /\ calls[call_sid] # NoObject
    /\ response' = ErrorTwiml(call_sid, webhook)
    /\ UNCHANGED << now, calls, conversation_sessions, conversations, candidates, system_logs,
                    notifications, procs >>

\* POST /twilio-voice with the form fields CallSid, From and To
twilio_voice_form(call_sid, from_number, to_number) ==
    /\ LET candidate_phone == IF from_number = TWILIO_PHONE_NUMBER
                              THEN to_number ELSE from_number
           got == get_or_create_session(conversation_sessions, conversations, call_sid,
                                        candidate_phone, CandidateByPhone(candidate_phone))
           \* initial_turn = ConversationTurn(turn_number=1, candidate_input="[CALL INITIATED]")
           session == [got.session EXCEPT !.turns = Append(@, Turn(1, TRUE))]
       IN  /\ conversation_sessions' = [got.cache EXCEPT ![call_sid] = session]
           /\ conversations' = save_conversation_session(got.convs, call_sid, session)
           /\ response' = Twiml(call_sid, "greeting", get_ai_greeting(session.candidate))
    /\ UNCHANGED << now, calls, candidates, system_logs, notifications, procs, delivered >>

\* POST /twilio-voice: the call-started callback the provider sends for a call
twilio_voice(call_sid) ==
    /\ calls[call_sid] # NoObject
    /\ twilio_voice_form(call_sid, FromOf(calls[call_sid]), ToOf(calls[call_sid]))

\* a retry branch that looks at the transcript only
UnusableTranscript(speech_result, confidence) ==
    speech_result = "" \/ Len(speech_result) < 3

\* the guard of the retry branch of process_speech
Unusable(speech_result, confidence) ==
    speech_result = "" \/ Len(speech_result) < 3 \/ confidence < 30

\* a stage rule whose closing stage begins one turn later
StageLate(turn_number) ==
    IF turn_number = 2 THEN "initial" ELSE IF turn_number < 6 THEN "scheduling" ELSE "closing"

\* conversation_stage
Stage(turn_number) ==
    IF turn_number = 2 THEN "initial" ELSE IF turn_number < 5 THEN "scheduling" ELSE "closing"

\* any(day in speech_result.lower() for day in ["monday", "tuesday", "wednesday", "thursday"])
MentionsDay(speech_result) ==
    \E day \in {"monday", "tuesday", "wednesday", "thursday"} : Contains(day, lower(speech_result))

\* what process_speech computes from the transcript alone, for every transcript of the
\* model: the stripped text, analyze_intent, find_mentioned_time_slot and the day test
Heard ==
    [u \in Utterances |->
        LET speech_result == strip(u)
        IN  [speech_result |-> speech_result,
             intent |-> analyze_intent(speech_result).intent,
             conf |-> analyze_intent(speech_result).conf,
             mentioned_slot |-> find_mentioned_time_slot(speech_result, TIME_SLOTS),
             day |-> MentionsDay(speech_result)]]

\* the stage handling of process_speech
StagePolicy(st, turn_number, heard, call_sid, outcome, t) ==
    LET keep == [session |-> st.session, candidates |-> st.candidates,
                 notifications |-> st.notifications, system_logs |-> st.system_logs,
                 next_action |-> "gather", say |-> "reply"]
    IN  IF Stage(turn_number) = "initial" THEN keep
        ELSE IF Stage(turn_number) = "scheduling"
        THEN IF heard.intent = "confirmation" /\ heard.conf > 60
             THEN IF heard.mentioned_slot # None
                  THEN CommitConfirmed(st, heard.mentioned_slot, call_sid, outcome, t)
                  ELSE keep
             ELSE IF heard.intent = "rejection" THEN keep
             ELSE IF heard.day
             THEN IF heard.mentioned_slot # None
                  THEN CommitDayMention(st, heard.mentioned_slot, call_sid, outcome, t)
                  ELSE keep
             ELSE keep
        ELSE [keep EXCEPT
                 !.session.status = "failed",
                 !.next_action = "end_call",
                 !.say = "closing",
                 !.candidates =
                     IF st.session.candidate.src = "phone"
                     THEN update_interview_status(@, st.session.candidate.id,
                                                  "call_completed_no_scheduling", None)
                     ELSE @]

\* a turn cap that first applies one turn later
TurnCapLate(r, turn_number) ==
    IF turn_number > 7
    THEN [r EXCEPT
             !.session.status = IF r.session.confirmed_slot = None THEN "failed" ELSE "completed",
             !.next_action = "end_call",
             !.say = "cap",
             !.candidates =
                 IF r.session.candidate.src = "phone"
                 THEN IF r.session.confirmed_slot # None
                      THEN update_interview_status(@, r.session.candidate.id,
                                                   "interview_scheduled", r.session.confirmed_slot)
                      ELSE update_interview_status(@, r.session.candidate.id, "call_timeout", None)
                 ELSE @]
    ELSE r

\* if turn_number > 6: the turn cap
TurnCap(r, turn_number) ==
    IF turn_number > 6
    THEN [r EXCEPT
             !.session.status = IF r.session.confirmed_slot = None THEN "failed" ELSE "completed",
             !.next_action = "end_call",
             !.say = "cap",
             !.candidates =
                 IF r.session.candidate.src = "phone"
                 THEN IF r.session.confirmed_slot # None
                      THEN update_interview_status(@, r.session.candidate.id,
                                                   "interview_scheduled", r.session.confirmed_slot)
                      ELSE update_interview_status(@, r.session.candidate.id, "call_timeout", None)
                 ELSE @]
    ELSE r

\* POST /twilio-process with the form fields CallSid, From, SpeechResult and Confidence,
\* as far as the program's state goes (the provider's bookkeeping of the delivery is the
\* provider's: see Deliver)
process_speech_form(call_sid, from_number, SpeechResult, confidence, outcome) ==
    /\ LET heard == Heard[SpeechResult]
       IN  IF confidence = NotANumber
           THEN \* float(form_data.get("Confidence", "0.0")) raises ValueError
                /\ response' = ErrorTwiml(call_sid, "twilio-process")
                /\ UNCHANGED << conversation_sessions, conversations, candidates, system_logs,
                                notifications >>
           ELSE IF Unusable(heard.speech_result, confidence)
           THEN /\ response' = Twiml(call_sid, "retry", "retry")
                /\ UNCHANGED << conversation_sessions, conversations, candidates, system_logs,
                                notifications >>
           ELSE LET caller_phone == from_number
                    loaded == load_session_from_db(conversations, call_sid)
                    got == IF conversation_sessions[call_sid] # NoObject
                           THEN [session |-> conversation_sessions[call_sid],
                                 cache |-> conversation_sessions, convs |-> conversations]
                           ELSE IF loaded # NoObject
                           THEN [session |-> loaded,
                                 cache |-> [conversation_sessions EXCEPT ![call_sid] = loaded],
                                 convs |-> conversations]
                           ELSE get_or_create_session(conversation_sessions, conversations,
                                                      call_sid, caller_phone,
                                                      CandidateByPhone(caller_phone))
                    turn_number == Len(got.session.turns) + 1
                    st == [session |-> got.session, candidates |-> candidates,
                           notifications |-> notifications, system_logs |-> system_logs]
                    r == TurnCap(StagePolicy(st, turn_number, heard, call_sid, outcome, now),
                                 turn_number)
                    session == [r.session EXCEPT !.turns = Append(@, Turn(turn_number, FALSE))]
                IN  /\ conversation_sessions' = [got.cache EXCEPT ![call_sid] = session]
                    /\ conversations' = save_conversation_session(got.convs, call_sid, session)
                    /\ candidates' = r.candidates
                    /\ notifications' = r.notifications
                    /\ system_logs' = r.system_logs
                    /\ response' = Twiml(call_sid,
                                         IF r.next_action = "end_call"
                                            \/ session.status \in {"completed", "failed"}
                                         THEN "hangup" ELSE "gather",
                                         r.say)
    /\ UNCHANGED << now, calls, procs >>

\* POST /twilio-process: the speech-result callback the provider sends for a call
process_speech(call_sid, SpeechResult, confidence, outcome) ==
    /\ calls[call_sid] # NoObject
    /\ process_speech_form(call_sid, FromOf(calls[call_sid]), SpeechResult, confidence, outcome)

\* the provider delivers a speech-result callback and keeps, for a later redelivery,
\* what it sent; confirmed tells whether the handler finalized a schedule on it
Deliver(call_sid, SpeechResult, confidence, outcome) ==
    /\ process_speech(call_sid, SpeechResult, confidence, outcome)
    /\ delivered' = [call_sid |-> call_sid, SpeechResult |-> SpeechResult,
                     Confidence |-> confidence, confirmed |-> system_logs' # system_logs]

\* the provider delivers a speech-result callback and counts the answers that tell it to
\* gather again (the <Gather> TwiML, retry or reply)
DeliverCounted(call_sid, SpeechResult, confidence, outcome) ==
    /\ process_speech(call_sid, SpeechResult, confidence, outcome)
    /\ delivered' = [call_sid |-> call_sid,
                     gathers |-> (IF delivered = NoObject THEN 0 ELSE delivered.gathers)
                                 + (IF response'.kind \in {"retry", "gather"} THEN 1 ELSE 0)]

\* the provider delivers a callback and keeps whether it was one the webhook cannot
\* process: a speech-result callback with a malformed Confidence, or a body that cannot
\* be read; seq tells consecutive deliveries apart
Delivery(call_sid, webhook, raises) ==
    [call_sid |-> call_sid, webhook |-> webhook, raises |-> raises,
     seq |-> IF delivered = NoObject THEN 0 ELSE 1 - delivered.seq]

DeliverSpeech(call_sid, SpeechResult, confidence, outcome) ==
    /\ process_speech(call_sid, SpeechResult, confidence, outcome)
    /\ delivered' = Delivery(call_sid, "twilio-process", confidence = NotANumber)

DeliverUnreadable(call_sid, webhook) ==
    /\ unreadable_form(call_sid, webhook)
    /\ delivered' = Delivery(call_sid, webhook, TRUE)

\* the durable writes of a callback that can fail on their own: replace_one of
\* save_conversation_session and update_one of update_candidate_interview_scheduled
DurableWrites == {"session", "schedule"}

\* the stage handling of process_speech when the update_one of
\* update_candidate_interview_scheduled raises: the function logs and returns False; the
\* confirmation branch ignores the result and goes on to update_interview_status, the
\* day-mention branch skips update_interview_status when update_result is false
StagePolicyScheduleFails(st, turn_number, heard, call_sid, outcome, t) ==
    LET r == StagePolicy(st, turn_number, heard, call_sid, outcome, t)
        committed == Stage(turn_number) = "scheduling" /\ r.next_action = "end_call"
        slot == r.session.confirmed_slot
        candidate == r.session.candidate
        mail == SendConfirmation(st.candidates, st.notifications, candidate, slot, call_sid, outcome)
    IN  IF ~committed THEN r
        ELSE IF heard.intent = "confirmation" /\ heard.conf > 60
        THEN [r EXCEPT !.candidates =
                 update_interview_status(mail.candidates,
                                         IF candidate.src = "phone" THEN candidate.id
                                         ELSE SyntheticId(r.session.candidate_phone),
                                         "interview_scheduled", slot)]
        ELSE [r EXCEPT !.candidates = mail.candidates]

\* POST /twilio-voice when the replace_one of save_conversation_session raises: the
\* function logs the error and returns; delivered is the provider's note of what it sent
\* and which writes failed, seq telling consecutive deliveries apart
twilio_voice_save_fails(call_sid) ==
    /\ calls[call_sid] # NoObject
    /\ LET from_number == FromOf(calls[call_sid])
           to_number == ToOf(calls[call_sid])
           candidate_phone == IF from_number = TWILIO_PHONE_NUMBER
                              THEN to_number ELSE from_number
           got == get_or_create_session(conversation_sessions, conversations, call_sid,
                                        candidate_phone, CandidateByPhone(candidate_phone))
           session == [got.session EXCEPT !.turns = Append(@, Turn(1, TRUE))]
       IN  /\ conversation_sessions' = [got.cache EXCEPT ![call_sid] = session]
           /\ response' = Twiml(call_sid, "greeting", get_ai_greeting(session.candidate))
    /\ delivered' = [call_sid |-> call_sid, webhook |-> "twilio-voice", failed |-> {"session"},
                     seq |-> IF delivered = NoObject THEN 0 ELSE 1 - delivered.seq]
    /\ UNCHANGED << now, calls, conversations, candidates, system_logs, notifications, procs >>

\* a handler whose writes are not guarded: the exception of a failing write reaches the
\* except block of process_speech before the turn is recorded
process_speech_writes_raise(call_sid, SpeechResult, confidence, outcome, failed) ==
    /\ calls[call_sid] # NoObject
    /\ ~Unusable(Heard[SpeechResult].speech_result, confidence)
    /\ response' = ErrorTwiml(call_sid, "twilio-process")
    /\ delivered' = [call_sid |-> call_sid, webhook |-> "twilio-process", failed |-> failed,
                     seq |-> IF delivered = NoObject THEN 0 ELSE 1 - delivered.seq]
    /\ UNCHANGED << now, calls, conversation_sessions, conversations, candidates, system_logs,
                    notifications, procs >>

\* POST /twilio-process with a usable transcript when the durable writes of failed
\* raise: each of the two functions catches the exception of its write
process_speech_writes_fail(call_sid, SpeechResult, confidence, outcome, failed) ==
    /\ calls[call_sid] # NoObject
    /\ ~Unusable(Heard[SpeechResult].speech_result, confidence)
    /\ LET heard == Heard[SpeechResult]
           caller_phone == FromOf(calls[call_sid])
           loaded == load_session_from_db(conversations, call_sid)
           got == IF conversation_sessions[call_sid] # NoObject
                  THEN [session |-> conversation_sessions[call_sid],
                        cache |-> conversation_sessions, convs |-> conversations]
                  ELSE IF loaded # NoObject
                  THEN [session |-> loaded,
                        cache |-> [conversation_sessions EXCEPT ![call_sid] = loaded],
                        convs |-> conversations]
                  ELSE get_or_create_session(conversation_sessions, conversations,
                                             call_sid, caller_phone,
                                             CandidateByPhone(caller_phone))
           turn_number == Len(got.session.turns) + 1
           st == [session |-> got.session, candidates |-> candidates,
                  notifications |-> notifications, system_logs |-> system_logs]
           staged == IF "schedule" \in failed
                     THEN StagePolicyScheduleFails(st, turn_number, heard, call_sid, outcome, now)
                     ELSE StagePolicy(st, turn_number, heard, call_sid, outcome, now)
           r == TurnCap(staged, turn_number)
           session == [r.session EXCEPT !.turns = Append(@, Turn(turn_number, FALSE))]
       IN  /\ conversation_sessions' = [got.cache EXCEPT ![call_sid] = session]
           /\ conversations' = IF "session" \in failed THEN conversations
                               ELSE save_conversation_session(got.convs, call_sid, session)
           /\ candidates' = r.candidates
           /\ notifications' = r.notifications
           /\ system_logs' = r.system_logs
           /\ response' = Twiml(call_sid,
                                IF r.next_action = "end_call"
                                   \/ session.status \in {"completed", "failed"}
                                THEN "hangup" ELSE "gather",
                                r.say)
    /\ delivered' = [call_sid |-> call_sid, webhook |-> "twilio-process", failed |-> failed,
                     seq |-> IF delivered = NoObject THEN 0 ELSE 1 - delivered.seq]
    /\ UNCHANGED << now, calls, procs >>

\* ------------------------------------------------------------------------
\* Environment
\* ------------------------------------------------------------------------

\* the sid the provider gives the next call, None when the model's supply is used up
NextSid ==
    IF \E i \in 1..Len(CallSidSeq) : calls[CallSidSeq[i]] = NoObject
    THEN CallSidSeq[CHOOSE i \in 1..Len(CallSidSeq) :
                        /\ calls[CallSidSeq[i]] = NoObject
                        /\ \A j \in 1..(i - 1) : calls[CallSidSeq[j]] # NoObject]
    ELSE None

\* time passes: datetime.now() reads a later value
Tick ==
    /\ now < MaxTime
    /\ now' = now + 1
    /\ UNCHANGED << calls, conversation_sessions, conversations, candidates, system_logs,
                    notifications, procs, response, delivered >>

\* somebody dials our number: the provider opens an inbound call
InboundCall(phone) ==
    /\ NextSid # None
    /\ calls' = [calls EXCEPT ![NextSid] = [dir |-> "in", peer |-> phone]]
    /\ UNCHANGED << now, conversation_sessions, conversations, candidates, system_logs,
                    notifications, procs, response, delivered >>

\* ------------------------------------------------------------------------
\* Call placement (make_actual_call and the routes that lead to it)
\* ------------------------------------------------------------------------

\* a request in flight: the route it came in on, where it stands (pc), the candidate,
\* the governor decision it last obtained (NoObject: none obtained), the sid of the
\* call it placed, which call-tracking update it is in (n) and the document that
\* update read; a finished request keeps its candidate, decision and result until the
\* next one comes in
Proc(route, pc, candidate_id, decision, call_sid, n, doc, result) ==
    [route |-> route, pc |-> pc, candidate_id |-> candidate_id, decision |-> decision,
     call_sid |-> call_sid, n |-> n, doc |-> doc, result |-> result]

Idle(r) == IF procs[r] = NoObject THEN TRUE ELSE procs[r].pc = "done"

Return(p, result) ==
    [p EXCEPT !.route = None, !.pc = "done", !.call_sid = None, !.doc = NoObject, !.n = 0,
              !.result = result]

\* the candidates route /test-call goes through, in the order find() returns them
CandidateOrder(S) ==
    CHOOSE seq \in [1..Cardinality(S) -> S] : \A c \in S : \E i \in 1..Cardinality(S) : seq[i] = c

\* the governor check at the head of make_actual_call
GovernorStep(p) ==
    LET call_status == get_candidate_call_status(candidates[p.candidate_id])
    IN  IF call_status.can_call
        THEN [p EXCEPT !.pc = "create", !.decision = call_status]
        ELSE Return([p EXCEPT !.decision = call_status], "error")

\* POST /make-actual-call, up to its governor check
make_actual_call(r, candidate_id) ==
    /\ Idle(r)
    /\ procs' = [procs EXCEPT ![r] =
                    GovernorStep(Proc("make-actual-call", "governor", candidate_id, NoObject,
                                      None, 0, NoObject, None))]
    /\ UNCHANGED << now, calls, conversation_sessions, conversations, candidates, system_logs,
                    notifications, response, delivered >>

\* POST /call-candidate with a JSON body, up to calls.create: no governor check
call_candidate_body(r, candidate_id) ==
    /\ Idle(r)
    /\ procs' = [procs EXCEPT ![r] =
                    Proc("call-candidate", "create", candidate_id, NoObject, None, 0, NoObject, None)]
    /\ UNCHANGED << now, calls, conversation_sessions, conversations, candidates, system_logs,
                    notifications, response, delivered >>

\* POST /call-candidate/{candidate_id}, up to the call of make_actual_call
call_candidate_path(r, candidate_id) ==
    /\ Idle(r)
    /\ LET call_status == get_candidate_call_status(candidates[candidate_id])
           p == Proc("call-candidate-id", "governor", candidate_id, call_status, None, 0,
                     NoObject, None)
       IN  procs' = [procs EXCEPT ![r] = IF call_status.can_call THEN p ELSE Return(p, "error")]
    /\ UNCHANGED << now, calls, conversation_sessions, conversations, candidates, system_logs,
                    notifications, response, delivered >>

\* POST /test-call, up to the call of make_actual_call: the first candidate the governor allows
test_call(r) ==
    /\ Idle(r)
    /\ LET order == CandidateOrder(CandIds)
           allowed == {i \in 1..Len(order) : get_candidate_call_status(candidates[order[i]]).can_call}
           first == CHOOSE i \in allowed : \A j \in allowed : i <= j
       IN  procs' = [procs EXCEPT ![r] =
                        IF allowed = {}
                        THEN Return(Proc("test-call", "governor", None, NoObject, None, 0,
                                         NoObject, None), "error")
                        ELSE Proc("test-call", "governor", order[first],
                                  get_candidate_call_status(candidates[order[first]]), None, 0,
                                  NoObject, None)]
    /\ UNCHANGED << now, calls, conversation_sessions, conversations, candidates, system_logs,
                    notifications, response, delivered >>

\* a governor check that counts itself as an attempt
GovernorCounting(r) ==
    /\ procs[r] # NoObject
    /\ procs[r].pc = "governor"
    /\ procs' = [procs EXCEPT ![r] = GovernorStep(@)]
    /\ candidates' = [candidates EXCEPT ![procs[r].candidate_id].total_attempts = @ + 1]
    /\ UNCHANGED << now, calls, conversation_sessions, conversations, system_logs,
                    notifications, response, delivered >>

\* make_actual_call as called by the two routes above: its own governor check
Governor(r) ==
    /\ procs[r] # NoObject
    /\ procs[r].pc = "governor"
    /\ procs' = [procs EXCEPT ![r] = GovernorStep(@)]
    /\ UNCHANGED << now, calls, conversation_sessions, conversations, candidates, system_logs,
                    notifications, response, delivered >>

\* client.calls.create(to=candidate phone, from_=TWILIO_PHONE_NUMBER)
Create(r) ==
    /\ procs[r] # NoObject
    /\ procs[r].pc = "create"
    /\ NextSid # None
    /\ calls' = [calls EXCEPT ![NextSid] = [dir |-> "out", peer |-> PhoneOf(procs[r].candidate_id)]]
    /\ procs' = [procs EXCEPT ![r] =
                    IF @.route = "call-candidate"
                    THEN [@ EXCEPT !.pc = "fetch", !.call_sid = NextSid]
                    ELSE [@ EXCEPT !.pc = "read", !.n = 1, !.call_sid = NextSid]]
    /\ UNCHANGED << now, conversation_sessions, conversations, candidates, system_logs,
                    notifications, response, delivered >>

\* update_candidate_call_tracking: doc = coll.find_one({"_id": ObjectId(candidate_id)})
TrackRead(r) ==
    /\ procs[r] # NoObject
    /\ procs[r].pc = "read"
    /\ procs' = [procs EXCEPT ![r] = [@ EXCEPT !.pc = "write", !.doc = candidates[procs[r].candidate_id]]]
    /\ UNCHANGED << now, calls, conversation_sessions, conversations, candidates, system_logs,
                    notifications, response, delivered >>

\* update_candidate_call_tracking: the increment, the append and coll.update_one; n tells
\* the caller: 1 make_actual_call after calls.create, 2 save_call_attempt, 3 the failure
\* report of make_actual_call
TrackWrite(r) ==
    /\ procs[r] # NoObject
    /\ procs[r].pc = "write"
    /\ LET p == procs[r]
           doc == TrackingUpdate(p.doc, p.call_sid)
       IN  /\ candidates' = IF doc = NoObject THEN candidates
                            ELSE [candidates EXCEPT ![p.candidate_id] = SetWholeDoc(@, doc)]
           /\ procs' = [procs EXCEPT ![r] =
                           IF p.n = 1 THEN [p EXCEPT !.pc = "read", !.n = 2, !.doc = NoObject]
                           ELSE IF p.n = 2 THEN [p EXCEPT !.pc = "fetch", !.doc = NoObject]
                           ELSE Return(p, "error")]
    /\ UNCHANGED << now, calls, conversation_sessions, conversations, system_logs,
                    notifications, response, delivered >>

\* updated_call = client.calls(call.sid).fetch() and what follows it; failed tells
\* whether the provider reports the status "failed"
Fetch(r, failed) ==
    /\ procs[r] # NoObject
    /\ procs[r].pc = "fetch"
    /\ LET p == procs[r]
           candidate_info == [src |-> "id", id |-> p.candidate_id]
           got == get_or_create_session(conversation_sessions, conversations, p.call_sid,
                                        PhoneOf(p.candidate_id), candidate_info)
           \* make_actual_call: session.candidate = candidate_info; save_conversation_session
           session == IF p.route = "call-candidate" THEN got.session
                      ELSE [got.session EXCEPT !.candidate = candidate_info]
       IN  IF failed
           THEN /\ procs' = [procs EXCEPT ![r] =
                                IF p.route = "call-candidate" THEN Return(p, "error")
                                ELSE [p EXCEPT !.pc = "read", !.n = 3]]
                /\ UNCHANGED << conversation_sessions, conversations >>
           ELSE /\ procs' = [procs EXCEPT ![r] = Return(p, "success")]
                /\ conversation_sessions' = [got.cache EXCEPT ![p.call_sid] = session]
                /\ conversations' = IF p.route = "call-candidate" THEN got.convs
                                    ELSE save_conversation_session(got.convs, p.call_sid, session)
    /\ UNCHANGED << now, calls, candidates, system_logs, notifications, response, delivered >>

\* ------------------------------------------------------------------------
\* Specifications
\* ------------------------------------------------------------------------

Init ==
    /\ now = 0
    /\ calls = [sid \in CallSids |-> NoObject]
    /\ conversation_sessions = [sid \in SessionKeys |-> NoObject]
    /\ conversations = [db \in DbNames |-> [sid \in SessionKeys |-> NoObject]]
    /\ candidates = [c \in CandIds |-> FreshDoc]
    /\ system_logs = EmptyBag
    /\ notifications = EmptyBag
    /\ procs = [r \in Requests |-> NoObject]
    /\ response = Twiml(None, "none", "none")
    /\ delivered = NoObject

\* the turns and the call-started turns the session of a call holds
TurnsOf(call_sid) ==
    IF conversation_sessions[call_sid] = NoObject THEN 0
    ELSE Len(conversation_sessions[call_sid].turns)

StartsOf(call_sid) ==
    IF conversation_sessions[call_sid] = NoObject THEN 0
    ELSE Starts(conversation_sessions[call_sid])

\* the calls opened so far
Opened == Cardinality({sid \in CallSids : calls[sid] # NoObject})

\* the webhooks, for sessions of at most MaxTurns turns, MaxStarts of them call-started turns
Webhooks ==
    \/ \E call_sid \in CallSids :
           /\ StartsOf(call_sid) < MaxStarts
           /\ TurnsOf(call_sid) < MaxTurns
           /\ twilio_voice(call_sid)
    \/ \E call_sid \in CallSids, SpeechResult \in Utterances, confidence \in Confidences,
          outcome \in EmailOutcomes :
           /\ TurnsOf(call_sid) < MaxTurns
           /\ process_speech(call_sid, SpeechResult, confidence, outcome)
           /\ UNCHANGED delivered

\* the call-placement requests of the clients R
Placement(R) ==
    \/ \E r \in R, candidate_id \in CandIds : make_actual_call(r, candidate_id)
    \/ \E r \in R, candidate_id \in CandIds : call_candidate_body(r, candidate_id)
    \/ \E r \in R, candidate_id \in CandIds : call_candidate_path(r, candidate_id)
    \/ \E r \in R : test_call(r)
    \/ \E r \in R : Governor(r)
    \/ \E r \in R : TrackRead(r)
    \/ \E r \in R : TrackWrite(r)
    \/ \E r \in R, failed \in BOOLEAN : Fetch(r, failed)

\* no placement request is being served
Quiet == \A r \in Requests : Idle(r)

\* one server process, whose event loop serves one request at a time (no handler
\* yields between its first and its last statement): one call, inbound or placed by
\* one client, and its whole dialogue
Next ==
    \/ Tick
    \/ \E phone \in CallerPhones : Quiet /\ Opened < MaxCalls /\ InboundCall(phone)
    \/ Quiet /\ Webhooks
    \/ Placement({"r1"})
    \/ Opened < MaxCalls /\ Create("r1")

Spec == Init /\ [][Next]_vars

\* the dialogue of one inbound call, the provider keeping track of what it delivers
NextDelivery ==
    \/ \E phone \in CallerPhones : Opened < MaxCalls /\ InboundCall(phone)
    \/ \E call_sid \in CallSids :
           /\ StartsOf(call_sid) < MaxStarts
           /\ TurnsOf(call_sid) < MaxTurns
           /\ twilio_voice(call_sid)
    \/ \E call_sid \in CallSids, SpeechResult \in Utterances, confidence \in Confidences,
          outcome \in EmailOutcomes :
           /\ TurnsOf(call_sid) < MaxTurns
           /\ Deliver(call_sid, SpeechResult, confidence, outcome)

SpecDelivery == Init /\ [][NextDelivery]_vars

\* the transcripts analyze_intent classifies as unclear
Unclear == {u \in Utterances : Heard[u].intent = "unclear"}

\* the dialogue of one inbound call whose caller never says anything the classifier
\* understands
NextUnclear ==
    \/ Tick
    \/ \E phone \in CallerPhones : Opened < MaxCalls /\ InboundCall(phone)
    \/ \E call_sid \in CallSids :
           /\ StartsOf(call_sid) < MaxStarts
           /\ TurnsOf(call_sid) < MaxTurns
           /\ twilio_voice(call_sid)
    \/ \E call_sid \in CallSids, SpeechResult \in Unclear, confidence \in Confidences,
          outcome \in EmailOutcomes :
           /\ TurnsOf(call_sid) < MaxTurns
           /\ Deliver(call_sid, SpeechResult, confidence, outcome)

SpecUnclear == Init /\ [][NextUnclear]_vars

\* the gather-again answers the provider has counted
Gathers == IF delivered = NoObject THEN 0 ELSE delivered.gathers

\* the dialogue of one inbound call, the provider counting how often it is told to gather
NextCap ==
    \/ \E phone \in CallerPhones : Opened < MaxCalls /\ InboundCall(phone)
    \/ \E call_sid \in CallSids :
           /\ StartsOf(call_sid) < MaxStarts
           /\ TurnsOf(call_sid) < MaxTurns
           /\ twilio_voice(call_sid)
    \/ \E call_sid \in CallSids, SpeechResult \in Utterances, confidence \in Confidences,
          outcome \in EmailOutcomes :
           /\ TurnsOf(call_sid) < MaxTurns
           /\ Gathers < MaxGathers
           /\ DeliverCounted(call_sid, SpeechResult, confidence, outcome)

SpecCap == Init /\ [][NextCap]_vars

\* callbacks that carry no CallSid (From is sent): the webhooks go on with "unknown"
NextMalformed ==
    \/ Tick
    \/ \E from_number \in CallerPhones :
           /\ StartsOf(UnknownSid) < MaxStarts
           /\ TurnsOf(UnknownSid) < MaxTurns
           /\ twilio_voice_form(UnknownSid, from_number, TWILIO_PHONE_NUMBER)
    \/ \E from_number \in CallerPhones, SpeechResult \in Utterances,
          confidence \in Confidences, outcome \in EmailOutcomes :
           /\ TurnsOf(UnknownSid) < MaxTurns
           /\ process_speech_form(UnknownSid, from_number, SpeechResult, confidence, outcome)
           /\ UNCHANGED delivered

SpecMalformed == Init /\ [][NextMalformed]_vars

\* one call, inbound or placed by POST /call-candidate, and its dialogue, with every
\* outcome of the confirmation step
NextNotify ==
    \/ \E phone \in CallerPhones : Quiet /\ Opened < MaxCalls /\ InboundCall(phone)
    \/ \E candidate_id \in CandIds : call_candidate_body("r1", candidate_id)
    \/ Opened < MaxCalls /\ Create("r1")
    \/ \E failed \in BOOLEAN : Fetch("r1", failed)
    \/ \E call_sid \in CallSids :
           /\ Quiet
           /\ StartsOf(call_sid) < MaxStarts
           /\ TurnsOf(call_sid) < MaxTurns
           /\ twilio_voice(call_sid)
    \/ \E call_sid \in CallSids, SpeechResult \in Utterances, confidence \in Confidences,
          outcome \in NotificationOutcomes :
           /\ Quiet
           /\ TurnsOf(call_sid) < MaxTurns
           /\ process_speech(call_sid, SpeechResult, confidence, outcome)
           /\ UNCHANGED delivered

SpecNotify == Init /\ [][NextNotify]_vars

\* the dialogue of one inbound call, with callbacks the webhooks cannot process
NextError ==
    \/ \E phone \in CallerPhones : Opened < MaxCalls /\ InboundCall(phone)
    \/ \E call_sid \in CallSids :
           /\ StartsOf(call_sid) < MaxStarts
           /\ TurnsOf(call_sid) < MaxTurns
           /\ twilio_voice(call_sid)
    \/ \E call_sid \in CallSids, SpeechResult \in Utterances,
          confidence \in Confidences \cup {NotANumber}, outcome \in EmailOutcomes :
           /\ TurnsOf(call_sid) < MaxTurns
           /\ DeliverSpeech(call_sid, SpeechResult, confidence, outcome)
    \/ \E call_sid \in CallSids, webhook \in {"twilio-voice", "twilio-process"} :
           DeliverUnreadable(call_sid, webhook)

SpecError == Init /\ [][NextError]_vars

\* the server process restarts between two callbacks: the session map, a module-level
\* dict, starts empty again; the collections keep what was written
Restart ==
    /\ conversation_sessions' = [sid \in SessionKeys |-> NoObject]
    /\ UNCHANGED << now, calls, conversations, candidates, system_logs, notifications, procs,
                    response, delivered >>

\* the dialogue of one inbound call with restarts of the server after call-started
\* callbacks, before the first speech-result callback
NextRestart ==
    \/ NextDelivery
    \/ /\ delivered = NoObject
       /\ \E call_sid \in CallSids : conversation_sessions[call_sid] # NoObject
       /\ Restart

SpecRestart == Init /\ [][NextRestart]_vars

\* the dialogue of one inbound call during which durable writes fail: every callback is
\* one whose session save fails, whose schedule write fails, or both
NextWriteFailure ==
    \/ \E phone \in CallerPhones : Opened < MaxCalls /\ InboundCall(phone)
    \/ \E call_sid \in CallSids :
           /\ StartsOf(call_sid) < MaxStarts
           /\ TurnsOf(call_sid) < MaxTurns
           /\ twilio_voice_save_fails(call_sid)
    \/ \E call_sid \in CallSids, SpeechResult \in Utterances, confidence \in Confidences,
          outcome \in EmailOutcomes, failed \in (SUBSET DurableWrites) \ {{}} :
           /\ TurnsOf(call_sid) < MaxTurns
           /\ process_speech_writes_fail(call_sid, SpeechResult, confidence, outcome, failed)

SpecWriteFailure == Init /\ [][NextWriteFailure]_vars

\* a call placed by POST /make-actual-call and its dialogue, served by several server
\* processes over the one candidate store: the webhooks of the call run between the
\* steps of the placement request, also between the find_one and the update_one of a
\* call-tracking update
NextInterleaved ==
    \/ \E candidate_id \in CandIds : make_actual_call("r1", candidate_id)
    \/ Opened < MaxCalls /\ Create("r1")
    \/ TrackRead("r1")
    \/ TrackWrite("r1")
    \/ \E failed \in BOOLEAN : Fetch("r1", failed)
    \/ \E call_sid \in CallSids :
           /\ StartsOf(call_sid) < MaxStarts
           /\ TurnsOf(call_sid) < MaxTurns
           /\ twilio_voice(call_sid)
    \/ \E call_sid \in CallSids, SpeechResult \in Utterances, confidence \in Confidences,
          outcome \in EmailOutcomes :
           /\ TurnsOf(call_sid) < MaxTurns
           /\ process_speech(call_sid, SpeechResult, confidence, outcome)
           /\ UNCHANGED delivered

SpecInterleaved == Init /\ [][NextInterleaved]_vars

\* the most words of a transcript the recogniser builds up
MaxWords == 3

\* words the speech recogniser may put in a transcript
Words == {"yes", "tuesday", "mondays", "great", "thursday", "pm"}

\* the transcript of the speech recognised so far, "" before the first word
Transcript == IF delivered = NoObject THEN "" ELSE delivered.SpeechResult

\* the number of words recognised so far
WordsHeard == IF delivered = NoObject THEN 0 ELSE delivered.words

\* the recogniser adds a word to the transcript; process_speech calls the slot matcher
\* on the transcript and the catalog (the calls at lines 1961 and 2070)
Recognise(word) ==
    /\ LET text == IF Transcript = "" THEN word ELSE Transcript \o " " \o word
       IN  delivered' = [SpeechResult |-> text, words |-> Len(split(text)),
                         mentioned_slot |-> find_mentioned_time_slot(text, TIME_SLOTS)]
    /\ UNCHANGED << now, calls, conversation_sessions, conversations, candidates, system_logs,
                    notifications, procs, response >>

\* the slot matcher on every transcript of at most MaxWords words
NextMatcher == \E word \in Words : WordsHeard < MaxWords /\ Recognise(word)

SpecMatcher == Init /\ [][NextMatcher]_vars

\* several server processes on one database: concurrent placement requests, their steps
\* interleaved, and the calls they place
NextRace ==
    \/ Placement(Requests)
    \/ \E r \in Requests : Create(r)

SpecRace == Init /\ [][NextRace]_vars

\* the documents the shortlistedcandidates collection may hold for a candidate: written
\* by this program or by the system that shortlists (call_tracking with or without its
\* counters, any limit up to the default, any status the program writes)
StoredDocs ==
    {[FreshDoc EXCEPT !.has_ct = TRUE, !.status = st] :
         st \in {None, "active", "max_attempts", "interview_scheduled"}}
    \cup {[FreshDoc EXCEPT !.has_ct = TRUE, !.has_counters = TRUE, !.total_attempts = t,
                            !.max_attempts = m, !.status = st] :
              t \in 0..MaxAttempts, m \in 1..DefaultMaxAttempts,
              st \in {None, "active", "max_attempts", "interview_scheduled"}}
    \cup {FreshDoc}

\* the governor applied to every stored document, by the route that asks it twice
InitGovernor ==
    /\ now = 0
    /\ calls = [sid \in CallSids |-> NoObject]
    /\ conversation_sessions = [sid \in SessionKeys |-> NoObject]
    /\ conversations = [db \in DbNames |-> [sid \in SessionKeys |-> NoObject]]
    /\ candidates \in [CandIds -> StoredDocs]
    /\ system_logs = EmptyBag
    /\ notifications = EmptyBag
    /\ procs = [r \in Requests |-> NoObject]
    /\ response = Twiml(None, "none", "none")
    /\ delivered = NoObject

\* words the speech recogniser may put in a transcript, of every category of the classifier
ClassifierWords == {"yes", "tuesday", "nah", "thanks", "what", "times"}

\* the recogniser adds a word to the transcript; process_speech classifies the
\* transcript (the call at line 1935)
Classify(word) ==
    /\ LET text == IF Transcript = "" THEN word ELSE Transcript \o " " \o word
       IN  delivered' = [SpeechResult |-> text, words |-> Len(split(text)),
                         intent |-> analyze_intent(text).intent,
                         conf |-> analyze_intent(text).conf]
    /\ UNCHANGED << now, calls, conversation_sessions, conversations, candidates, system_logs,
                    notifications, procs, response >>

\* the classifier on every transcript of at most MaxWords words
NextClassifier == \E word \in ClassifierWords : WordsHeard < MaxWords /\ Classify(word)

SpecClassifier == Init /\ [][NextClassifier]_vars

\* the stored documents of a candidate that may be called exactly once more:
\* total_attempts = max_attempts - 1 and no interview scheduled
InitAtLimit ==
    /\ now = 0
    /\ calls = [sid \in CallSids |-> NoObject]
    /\ conversation_sessions = [sid \in SessionKeys |-> NoObject]
    /\ conversations = [db \in DbNames |-> [sid \in SessionKeys |-> NoObject]]
    /\ candidates \in [CandIds -> {d \in StoredDocs :
                                      /\ d.has_counters
                                      /\ d.total_attempts = d.max_attempts - 1
                                      /\ d.status \in {None, "active"}}]
    /\ system_logs = EmptyBag
    /\ notifications = EmptyBag
    /\ procs = [r \in Requests |-> NoObject]
    /\ response = Twiml(None, "none", "none")
    /\ delivered = NoObject

\* concurrent POST /make-actual-call requests for such a candidate, their steps interleaved
NextAtLimit ==
    \/ \E r \in Requests, candidate_id \in CandIds : make_actual_call(r, candidate_id)
    \/ \E r \in Requests : Create(r)
    \/ \E r \in Requests : TrackRead(r)
    \/ \E r \in Requests : TrackWrite(r)
    \/ \E r \in Requests, failed \in BOOLEAN : Fetch(r, failed)

SpecAtLimit == InitAtLimit /\ [][NextAtLimit]_vars

NextGovernor ==
    \/ \E r \in Requests, candidate_id \in CandIds : call_candidate_path(r, candidate_id)
    \/ \E r \in Requests : Governor(r)

SpecGovernor == InitGovernor /\ [][NextGovernor]_vars

\* a caller asks get_candidate_call_status about candidate_id while the store is in
\* the condition store; delivered keeps the question and the answer
AskCallStatus(candidate_id, store) ==
    /\ delivered' = [candidate_id |-> candidate_id, store |-> store,
                     call_status |-> get_candidate_call_status_by_id(candidate_id, candidates,
                                                                     store)]
    /\ UNCHANGED << now, calls, conversation_sessions, conversations, candidates, system_logs,
                    notifications, procs, response >>

\* the governor asked about any id, over every stored document and store condition
NextCallStatus ==
    \E candidate_id \in RequestedIds, store \in StoreConditions :
        AskCallStatus(candidate_id, store)

SpecCallStatus == InitGovernor /\ [][NextCallStatus]_vars

\* ------------------------------------------------------------------------
\* Properties
\* ------------------------------------------------------------------------

\* the session of a call has reached completed or failed
Terminal(call_sid) ==
    IF conversation_sessions[call_sid] = NoObject THEN FALSE
    ELSE conversation_sessions[call_sid].status \in {"completed", "failed"}

\* this step is a speech-result callback that ran the dialogue policy for the call: it
\* appended a turn that is not a call-started turn
SpeechTurnAdded(call_sid) ==
    IF conversation_sessions'[call_sid] = NoObject THEN FALSE
    ELSE LET turns == conversation_sessions'[call_sid].turns
         IN  /\ Len(turns) = TurnsOf(call_sid) + 1
             /\ ~turns[Len(turns)].synthetic

\* C1: once the session of a call is completed or failed, no speech-result callback for
\* that call runs the dialogue policy again: no step appends a speech turn to a terminal
\* session, finalizes a schedule or requests a notification for it
C1_TerminalSessionIsSticky ==
    [][\A call_sid \in CallSids :
           Terminal(call_sid) =>
               /\ ~SpeechTurnAdded(call_sid)
               /\ system_logs' = system_logs
               /\ notifications' = notifications]_vars

\* C2: the status of a session only moves from active to completed or failed: over any
\* step, a completed session stays completed and a failed session stays failed
C2_StatusIsMonotonic ==
    [][\A call_sid \in CallSids :
           Terminal(call_sid) =>
               /\ conversation_sessions'[call_sid] # NoObject
               /\ conversation_sessions'[call_sid].status = conversation_sessions[call_sid].status]_vars

\* the slot the session of a call has confirmed, None when there is no session or no slot
ConfirmedSlot(call_sid) ==
    IF conversation_sessions[call_sid] = NoObject THEN None
    ELSE conversation_sessions[call_sid].confirmed_slot

\* C3: confirmed_slot is set at most once: once the session of a call holds a slot, no
\* step changes it to another slot or clears it
C3_ConfirmedSlotSetOnce ==
    [][\A call_sid \in CallSids :
           ConfirmedSlot(call_sid) # None =>
               /\ conversation_sessions'[call_sid] # NoObject
               /\ conversation_sessions'[call_sid].confirmed_slot = ConfirmedSlot(call_sid)]_vars

\* C4: the turns of every session are numbered 1, 2, ..., n in order, after any sequence
\* of call-started and speech-result callbacks
C4_TurnNumbersAreOneToN ==
    \A call_sid \in CallSids :
        conversation_sessions[call_sid] # NoObject =>
            \A i \in 1..TurnsOf(call_sid) :
                conversation_sessions[call_sid].turns[i].turn_number = i

\* this step invokes the scheduling finalizer with the key e = (candidate id, call id,
\* slot): it logs one more INTERVIEW_SCHEDULED entry for it
FinalizerInvoked(e) == CopiesIn(e, system_logs') > CopiesIn(e, system_logs)

\* C5: finalization is idempotent: a step that invokes the finalizer for a stored candidate
\* with a key it was already invoked with changes nothing in the stored candidate records
C5_FinalizationIsIdempotent ==
    [][\A e \in BagToSet(system_logs) :
           (e.candidate_id \in CandIds /\ FinalizerInvoked(e)) => candidates' = candidates]_vars

\* this step delivers again, for the same call, the speech-result callback that was
\* delivered last and that confirmed a slot (same call id, same transcript and confidence)
DuplicateOfConfirming(call_sid) ==
    IF delivered = NoObject THEN FALSE
    ELSE /\ delivered.call_sid = call_sid
         /\ delivered.confirmed
         /\ SpeechTurnAdded(call_sid)
         /\ delivered'.call_sid = call_sid
         /\ delivered'.SpeechResult = delivered.SpeechResult
         /\ delivered'.Confidence = delivered.Confidence

\* C6: a duplicate delivery of the speech-result callback that confirmed a slot is
\* absorbed: the step requests no confirmation notification and writes no schedule
C6_DuplicateDeliveryAbsorbed ==
    [][\A call_sid \in CallSids :
           DuplicateOfConfirming(call_sid) =>
               /\ notifications' = notifications
               /\ candidates' = candidates
               /\ system_logs' = system_logs]_vars

\* what a stored document says, with the defaults of the data model: no attempts yet,
\* at most DefaultMaxAttempts, status active
AttemptsIn(doc) == IF doc.has_counters THEN doc.total_attempts ELSE 0

LimitIn(doc) == IF doc.has_counters THEN doc.max_attempts ELSE DefaultMaxAttempts

StatusIn(doc) == IF doc.has_ct /\ doc.status # None THEN doc.status ELSE "active"

\* C7: the governor denies every stored candidate whose status is interview_scheduled,
\* whatever total_attempts is; any other candidate it allows exactly when total_attempts
\* is below max_attempts, and a denial for attempts says "maximum attempts"
C7_GovernorRule ==
    \A r \in Requests :
        (procs[r] # NoObject /\ procs[r].decision # NoObject) =>
            LET doc == candidates[procs[r].candidate_id]
                decision == procs[r].decision
            IN  IF StatusIn(doc) = "interview_scheduled"
                THEN ~decision.can_call
                ELSE /\ decision.can_call <=> AttemptsIn(doc) < LimitIn(doc)
                     /\ ~decision.can_call => Contains("maximum attempts", lower(decision.reason))

\* the governor has denied a scheduled candidate with no attempt at all
C7_ScheduledDeniedAtZero ==
    \E r \in Requests :
        /\ procs[r] # NoObject
        /\ procs[r].decision # NoObject
        /\ ~procs[r].decision.can_call
        /\ StatusIn(candidates[procs[r].candidate_id]) = "interview_scheduled"
        /\ AttemptsIn(candidates[procs[r].candidate_id]) = 0
        /\ LimitIn(candidates[procs[r].candidate_id]) = DefaultMaxAttempts

\* this step is request r placing its call (client.calls.create)
PlacesCall(r) ==
    IF procs[r] = NoObject \/ procs'[r] = NoObject THEN FALSE
    ELSE procs[r].pc = "create" /\ procs'[r].call_sid # None /\ procs[r].call_sid = None

\* C8: every operation that places an outbound call has first obtained the governor's
\* decision for the candidate, places the call only if it allows, and goes on to record
\* the call attempt
C8_PlacementAsksGovernor ==
    [][\A r \in Requests :
           PlacesCall(r) =>
               /\ procs[r].decision # NoObject
               /\ procs[r].decision.can_call
               /\ procs'[r].pc = "read"]_vars

\* this step is request r finishing the call-tracking update that follows calls.create
\* in make_actual_call, for candidate c
RecordsPlacement(r, c) ==
    IF procs[r] = NoObject THEN FALSE
    ELSE /\ procs[r].pc = "write"
         /\ procs[r].n = 1
         /\ procs[r].candidate_id = c
         /\ procs'[r] # procs[r]

\* C9: total_attempts and the call history of a candidate change only when a placement is
\* recorded, once per call placed and by exactly one: nothing later (a status update, a
\* failure report) adds to them
C9_OneAttemptPerPlacement ==
    [][\A c \in CandIds :
           (\/ AttemptsIn(candidates'[c]) # AttemptsIn(candidates[c])
            \/ candidates'[c].call_history # candidates[c].call_history) =>
               /\ \E r \in Requests : RecordsPlacement(r, c)
               /\ AttemptsIn(candidates'[c]) = AttemptsIn(candidates[c]) + 1
               /\ Len(candidates'[c].call_history) = Len(candidates[c].call_history) + 1]_vars

\* C10: in every state, interleaved call-tracking updates included, total_attempts of a
\* candidate is at most the number of entries of its call history
C10_AttemptsWithinHistory ==
    \A c \in CandIds : AttemptsIn(candidates[c]) <= Len(candidates[c].call_history)

\* a tracking update is about to write over attempts another request recorded after it read
C10_StaleWritePending ==
    \E r \in Requests :
        /\ procs[r] # NoObject
        /\ procs[r].pc = "write"
        /\ AttemptsIn(procs[r].doc) < AttemptsIn(candidates[procs[r].candidate_id])
        /\ AttemptsIn(candidates[procs[r].candidate_id]) >= 2

\* the session of a call is active
Active(call_sid) ==
    IF conversation_sessions[call_sid] = NoObject THEN FALSE
    ELSE conversation_sessions[call_sid].status = "active"

\* C11: a speech-result callback processed as turn 7 of a session that is still active
\* forces the session, on that turn, to completed if confirmed_slot is set and to failed
\* otherwise, and is answered with the line of the turn cap and a hangup
C11_TurnCapForcesTerminal ==
    [][\A call_sid \in CallSids :
           (Active(call_sid) /\ TurnsOf(call_sid) = 6 /\ SpeechTurnAdded(call_sid)) =>
               /\ conversation_sessions'[call_sid].status =
                      IF conversation_sessions'[call_sid].confirmed_slot # None
                      THEN "completed" ELSE "failed"
               /\ response' = Twiml(call_sid, "hangup", "cap")]_vars

\* a session that was active through six turns has been failed by its seventh, a speech turn
C11_CappedAtTurnSeven ==
    \E call_sid \in CallSids :
        /\ TurnsOf(call_sid) = 7
        /\ conversation_sessions[call_sid].turns[5].synthetic
        /\ conversation_sessions[call_sid].turns[6].synthetic
        /\ ~conversation_sessions[call_sid].turns[7].synthetic
        /\ conversation_sessions[call_sid].confirmed_slot = None
        /\ conversation_sessions[call_sid].status = "failed"
        /\ response = Twiml(call_sid, "hangup", "cap")

\* the session of a call began with the call-started callback and every later turn of it
\* is a speech turn
StartedOnce(call_sid) ==
    IF conversation_sessions[call_sid] = NoObject THEN FALSE
    ELSE /\ Starts(conversation_sessions[call_sid]) = 1
         /\ conversation_sessions[call_sid].turns[1].synthetic

\* C12: after a call-started callback followed by usable utterances that are all
\* classified unclear, the session is still active after each of turns 2 to 6 and becomes
\* failed exactly when turn 7 is processed
C12_UnclearFailsAtTurnSeven ==
    [][\A call_sid \in CallSids :
           (StartedOnce(call_sid) /\ Active(call_sid) /\ SpeechTurnAdded(call_sid)) =>
               conversation_sessions'[call_sid].status =
                   IF TurnsOf(call_sid) + 1 <= 6 THEN "active" ELSE "failed"]_vars

\* C12 as amended: after a call-started callback followed by usable utterances that are
\* all classified unclear and contain no weekday of the catalog, the session is still
\* active after each of turns 2 to 4 and becomes failed exactly when turn 5 is processed
C12_UnclearFailsAtTurnFive ==
    [][\A call_sid \in CallSids :
           (/\ StartedOnce(call_sid) /\ Active(call_sid) /\ SpeechTurnAdded(call_sid)
            /\ ~Heard[delivered'.SpeechResult].day) =>
               conversation_sessions'[call_sid].status =
                   IF TurnsOf(call_sid) + 1 <= 4 THEN "active" ELSE "failed"]_vars

\* an unclear utterance has just failed, at turn 5, a session that began with the
\* call-started callback
C12_FailedAtTurnFive ==
    \E call_sid \in CallSids :
        /\ StartedOnce(call_sid)
        /\ TurnsOf(call_sid) = 5
        /\ conversation_sessions[call_sid].status = "failed"
        /\ conversation_sessions[call_sid].confirmed_slot = None
        /\ delivered # NoObject

\* C13: a speech-result callback processed in the closing stage (turn 5 or later) or past
\* the turn cap leaves the session completed if confirmed_slot was already set and failed
\* only if it was unset; no session is ever failed with a confirmed_slot set
C13_ClosingKeepsConfirmed ==
    [][\A call_sid \in CallSids :
           /\ (SpeechTurnAdded(call_sid) /\ TurnsOf(call_sid) + 1 >= 5) =>
                  conversation_sessions'[call_sid].status =
                      IF ConfirmedSlot(call_sid) # None THEN "completed" ELSE "failed"
           /\ conversation_sessions'[call_sid] # NoObject =>
                  ~(/\ conversation_sessions'[call_sid].status = "failed"
                    /\ conversation_sessions'[call_sid].confirmed_slot # None)]_vars

\* this step answers a speech-result callback for the call with the re-prompt
Reprompted(call_sid) ==
    /\ response' = Twiml(call_sid, "retry", "retry")
    /\ response # response'

\* C14: a speech-result callback with an empty transcript or a confidence below 0.3 is
\* answered with a re-prompt and consumes a turn: the turn count of the session grows by one
C14_UnusableConsumesTurn ==
    [][\A call_sid \in CallSids :
           Reprompted(call_sid) =>
               /\ conversation_sessions'[call_sid] # NoObject
               /\ Len(conversation_sessions'[call_sid].turns) = TurnsOf(call_sid) + 1]_vars

\* C15: the gather-again answers to the speech-result callbacks of one call are bounded:
\* whatever the callbacks, usable or not, a hangup is returned no later than the callback
\* that would be turn 7, so at most six answers tell the provider to gather again
C15_GathersBounded == Gathers <= 6

\* C16: a call-started or speech-result callback that carries no call id is answered
\* with a hangup and creates no session, neither in the session map nor in the
\* conversations collection
C16_NoSessionWithoutCallId ==
    /\ response.call_sid = UnknownSid => response.kind = "hangup"
    /\ conversation_sessions[UnknownSid] = NoObject
    /\ \A db \in DbNames : conversations[db][UnknownSid] = NoObject

\* the catalog slots each transcript names in full
NamedInFull ==
    [u \in Utterances |->
        {TIME_SLOTS[i] : i \in {j \in 1..Len(TIME_SLOTS) :
                                    Contains(lower(TIME_SLOTS[j]), lower(strip(u)))}}]

\* C17: a usable utterance in the scheduling stage that names one catalog slot in full
\* commits that slot to the session, and the session becomes completed
C17_NamedSlotIsCommitted ==
    [][\A call_sid \in CallSids :
           (/\ ~Terminal(call_sid)
            /\ Stage(TurnsOf(call_sid) + 1) = "scheduling"
            /\ SpeechTurnAdded(call_sid)
            /\ Cardinality(NamedInFull[delivered'.SpeechResult]) = 1) =>
               /\ conversation_sessions'[call_sid].confirmed_slot
                      \in NamedInFull[delivered'.SpeechResult]
               /\ conversation_sessions'[call_sid].status = "completed"]_vars

\* the shortlistedcandidates collection holds, under the key, the interview details of the slot
ScheduleStored(candidate_id, slot) ==
    IF candidate_id \in DOMAIN candidates
    THEN /\ candidates[candidate_id].details.state = "set"
         /\ candidates[candidate_id].details.scheduled_slot = slot
    ELSE FALSE

\* C18: when a slot is confirmed for a caller that resolves to no stored candidate (only
\* the phone number is known), the finalizer still stores the interview schedule, under
\* the synthetic key it made from the phone number
C18_SyntheticKeyIsStored ==
    \A e \in BagToSet(system_logs) :
        ~IsObjectId(e.candidate_id) => ScheduleStored(e.candidate_id, e.slot)

\* the stored candidate the session of a call belongs to, None if there is none
StoredCandidateOf(session) ==
    IF session.candidate.src = "phone" THEN session.candidate.id
    ELSE find_candidate_by_phone(session.candidate_phone)

\* C19: no outcome of the confirmation notification (sent, only logged, send error,
\* missing settings or address) prevents or undoes the schedule write: the step that
\* confirms a slot leaves the session completed with confirmed_slot set and the stored
\* candidate with status interview_scheduled and the slot in its interview details
C19_NotificationNeverBlocksSchedule ==
    [][\A call_sid \in CallSids :
           (SpeechTurnAdded(call_sid) /\ system_logs' # system_logs) =>
               LET session == conversation_sessions'[call_sid]
                   c == StoredCandidateOf(session)
               IN  /\ session.confirmed_slot # None
                   /\ session.status = "completed"
                   /\ c # None =>
                          /\ StatusIn(candidates'[c]) = "interview_scheduled"
                          /\ candidates'[c].details.state = "set"
                          /\ candidates'[c].details.scheduled_slot = session.confirmed_slot]_vars

\* a slot was confirmed for a stored candidate although the notification failed
C19_ScheduledWithoutNotification ==
    \E call_sid \in CallSids, c \in CandIds :
        /\ conversation_sessions[call_sid] # NoObject
        /\ conversation_sessions[call_sid].status = "completed"
        /\ candidates[c].status = "interview_scheduled"
        /\ candidates[c].details.scheduled_slot = conversation_sessions[call_sid].confirmed_slot
        /\ notifications = EmptyBag
        /\ system_logs # EmptyBag

C21_TurnOneIsSynthetic ==
    \A call_sid \in CallSids :
        (conversation_sessions[call_sid] # NoObject /\ TurnsOf(call_sid) >= 1) =>
            /\ conversation_sessions[call_sid].turns[1].synthetic
            /\ \A i \in 1..TurnsOf(call_sid) :
                   conversation_sessions[call_sid].turns[i].turn_number = 1 =>
                       conversation_sessions[call_sid].turns[i].synthetic

\* C22: in the scheduling stage (turns 3 and 4) a usable utterance classified as rejection
\* ends the call: the session becomes failed and the answer is a hangup
C22_RejectionEndsCall ==
    [][\A call_sid \in CallSids :
           (/\ StartedOnce(call_sid)
            /\ Active(call_sid)
            /\ TurnsOf(call_sid) + 1 \in {3, 4}
            /\ SpeechTurnAdded(call_sid)
            /\ Heard[delivered'.SpeechResult].intent = "rejection") =>
               /\ conversation_sessions'[call_sid].status = "failed"
               /\ response'.call_sid = call_sid
               /\ response'.kind = "hangup"]_vars

\* the callback delivered last was turn 2 of the call, the turn of the initial stage, and
\* its utterance was neither a confirmation nor a rejection
InitialTurnNotAnswered(call_sid) ==
    IF delivered = NoObject THEN FALSE
    ELSE /\ delivered.call_sid = call_sid
         /\ StartedOnce(call_sid)
         /\ TurnsOf(call_sid) = 2
         /\ ~Unusable(Heard[delivered.SpeechResult].speech_result, delivered.Confidence)
         /\ Heard[delivered.SpeechResult].intent \notin {"confirmation", "rejection"}

\* C23: after an initial-stage turn whose utterance is neither a confirmation nor a
\* rejection the stage does not advance: the next usable utterance is handled by the
\* rules of the initial stage again, which commit no slot, leave the session active and
\* answer with a prompt and a gather
C23_InitialStageHolds ==
    [][\A call_sid \in CallSids :
           (InitialTurnNotAnswered(call_sid) /\ SpeechTurnAdded(call_sid)) =>
               /\ conversation_sessions'[call_sid].status = "active"
               /\ conversation_sessions'[call_sid].confirmed_slot = None
               /\ response' = Twiml(call_sid, "gather", "reply")]_vars

\* the words of a text: its maximal runs of non-space characters, lower-cased
Tokens(text) == {split(lower(text))[i] : i \in 1..Len(split(lower(text)))}

\* the catalog slots that have a whole token in common with the text, by catalog position
SharingToken(text) == {k \in 1..Len(TIME_SLOTS) : Tokens(TIME_SLOTS[k]) \cap Tokens(text) # {}}

\* C24: find_mentioned_time_slot returns the first catalog slot, in catalog order, that
\* has at least one whole token in common with the utterance, and none when no catalog
\* slot shares a whole token with it
C24_FirstSlotSharingToken ==
    delivered # NoObject =>
        delivered.mentioned_slot =
            IF SharingToken(delivered.SpeechResult) = {} THEN None
            ELSE TIME_SLOTS[CHOOSE k \in SharingToken(delivered.SpeechResult) :
                                \A j \in SharingToken(delivered.SpeechResult) : k <= j]

\* what a commit leaves behind: the session fields, the candidate identifier it resolved
\* (the one it logs), the notification requests and the candidate records
Effects(commit) ==
    [session |-> commit.session, candidates |-> commit.candidates,
     notifications |-> commit.notifications, system_logs |-> commit.system_logs]

\* C25: in the scheduling stage a commit triggered by an utterance that names a weekday
\* has the same effects as a commit triggered by a confirmation with a matched slot, for
\* the same session and slot: the step that commits a slot on either path leaves what
\* the other path would have left
C25_CommitPathsAgree ==
    [][\A call_sid \in CallSids :
           (/\ StartedOnce(call_sid)
            /\ TurnsOf(call_sid) + 1 \in {3, 4}
            /\ SpeechTurnAdded(call_sid)
            /\ system_logs' # system_logs) =>
               LET st == [session |-> conversation_sessions[call_sid], candidates |-> candidates,
                          notifications |-> notifications, system_logs |-> system_logs]
                   slot == conversation_sessions'[call_sid].confirmed_slot
               IN  \A outcome \in NotificationOutcomes :
                       Effects(CommitDayMention(st, slot, call_sid, outcome, now))
                           = Effects(CommitConfirmed(st, slot, call_sid, outcome, now))]_vars

\* the session map has lost the session of the call and the conversations collection
\* written by save_conversation_session holds it with its call-started turn
LostAfterStart(call_sid) ==
    /\ conversation_sessions[call_sid] = NoObject
    /\ conversations[SaveDb][call_sid] # NoObject
    /\ conversations[SaveDb][call_sid].turns = << Turn(1, TRUE) >>

\* C26: when the session map is lost after the call-started callback was handled, the
\* next usable speech-result callback for the call resumes the persisted session with
\* turn 1 still present: the utterance is recorded as turn 2 and handled in the initial
\* stage, which leaves the session active and answers with a prompt and a gather
C26_ResumesPersistedSession ==
    [][\A call_sid \in CallSids :
           (/\ LostAfterStart(call_sid)
            /\ delivered' # delivered
            /\ delivered'.call_sid = call_sid
            /\ ~Unusable(Heard[delivered'.SpeechResult].speech_result, delivered'.Confidence)) =>
               /\ conversation_sessions'[call_sid] # NoObject
               /\ conversation_sessions'[call_sid].turns = << Turn(1, TRUE), Turn(2, FALSE) >>
               /\ conversation_sessions'[call_sid].status = "active"
               /\ response' = Twiml(call_sid, "gather", "reply")]_vars

\* this step is request r writing a call-tracking update for candidate c
WritesTracking(r, c) ==
    IF procs[r] = NoObject THEN FALSE
    ELSE /\ procs[r].pc = "write"
         /\ procs[r].candidate_id = c
         /\ procs'[r] # procs[r]

\* C27: when two call-placement requests for the same candidate run concurrently while
\* total_attempts = max_attempts - 1, at most one of them places a call, and no attempt
\* is lost to an interleaved read-modify-write: every call-tracking write leaves
\* total_attempts one above the stored value
C27_OneCallAtTheLimit ==
    [][/\ Cardinality({sid \in CallSids : calls'[sid] # NoObject}) <= 1
       /\ \A r \in Requests, c \in CandIds :
              WritesTracking(r, c) =>
                  AttemptsIn(candidates'[c]) = AttemptsIn(candidates[c]) + 1]_vars

\* C28: after a finalization the email status the notification step recorded on the
\* interview details of the candidate is still on the stored schedule: the step that
\* commits a slot and requests the notification for a stored candidate leaves the
\* interview details with the slot and with that email status
C28_EmailStatusSurvives ==
    [][\A call_sid \in CallSids :
           (/\ SpeechTurnAdded(call_sid)
            /\ system_logs' # system_logs
            /\ notifications' # notifications
            /\ StoredCandidateOf(conversation_sessions'[call_sid]) # None) =>
               LET c == StoredCandidateOf(conversation_sessions'[call_sid])
               IN  /\ candidates'[c].details.scheduled_slot
                          = conversation_sessions'[call_sid].confirmed_slot
                   /\ candidates'[c].details.email_status
                          \in {"delivered", "logged_for_manual_processing"}]_vars

\* whose data the program holds: the stored candidates and the global CANDIDATE
Known == CandIds \cup {DefaultCandidate}

\* the session of the call belongs to a caller that matches no stored candidate
UnknownCaller(call_sid) ==
    IF conversation_sessions[call_sid] = NoObject THEN FALSE
    ELSE /\ conversation_sessions[call_sid].candidate.src = "none"
         /\ find_candidate_by_phone(conversation_sessions[call_sid].candidate_phone) = None

\* C29: for a caller that matches no stored candidate the session is information-free:
\* the greeting spoken, the persisted session and every confirmation notification of the
\* call neither contain nor target the data of a stored candidate or of the default one
C29_UnknownCallerLearnsNothing ==
    \A call_sid \in CallSids :
        UnknownCaller(call_sid) =>
            /\ (response.call_sid = call_sid /\ response.kind = "greeting") =>
                   \A c \in Known : response.say # get_ai_greeting([src |-> "id", id |-> c])
            /\ conversations[SaveDb][call_sid] # NoObject =>
                   conversations[SaveDb][call_sid].candidate_name \notin Known
            /\ \A n \in BagToSet(notifications) : n.call_sid = call_sid => n.to \notin Known

\* the categories of the classifier, in priority order; unclear is what is left
CategoryOrder ==
    << "time_mention", "confirmation", "rejection", "checking_availability", "polite_response" >>

\* a pattern of the category matches the stripped, lower-cased text t; the patterns of
\* confirmation and rejection include their single-word synonyms
Matches(category, t) ==
    LET single == Len(t) >= 3 /\ Len(split(t)) = 1
    IN  CASE category = "time_mention" -> TimeMatch(t) # 0
          [] category = "confirmation" ->
                 \/ FirstWordsMatch(t, confirmation_patterns) # 0
                 \/ single /\ t \in {"yes", "yep", "yeah", "ok", "okay", "sure", "fine", "good"}
          [] category = "rejection" ->
                 \/ RejectionMatch(t) # 0
                 \/ single /\ t \in {"no", "nope", "nah"}
          [] category = "checking_availability" -> FirstWordsMatch(t, availability_patterns) # 0
          [] category = "polite_response" -> FirstWordsMatch(t, politeness_patterns) # 0

\* the label of the highest-priority category with a matching pattern, unclear if none
HighestPriority(text) ==
    LET t == strip(lower(text))
        matching == {k \in 1..Len(CategoryOrder) : Matches(CategoryOrder[k], t)}
    IN  IF matching = {} THEN "unclear"
        ELSE CategoryOrder[CHOOSE k \in matching : \A j \in matching : k <= j]

\* C30: analyze_intent returns the label of the highest-priority category whose patterns
\* match the utterance, in the order time_mention, confirmation, rejection,
\* checking_availability, polite_response, unclear; an utterance that matches both a time
\* pattern and a confirmation pattern is classified time_mention
C30_HighestPriorityCategory ==
    delivered # NoObject =>
        /\ delivered.intent = HighestPriority(delivered.SpeechResult)
        /\ (/\ Matches("time_mention", strip(lower(delivered.SpeechResult)))
            /\ Matches("confirmation", strip(lower(delivered.SpeechResult)))) =>
               delivered.intent = "time_mention"

\* a transcript that matches a time pattern and a confirmation pattern was classified
\* time_mention
C30_TimeBeatsConfirmation ==
    /\ delivered # NoObject
    /\ Matches("time_mention", strip(lower(delivered.SpeechResult)))
    /\ Matches("confirmation", strip(lower(delivered.SpeechResult)))
    /\ delivered.intent = "time_mention"

\* this step delivers a speech-result callback for the call with an empty transcript or a
\* confidence below 0.3
UnusableDelivered(call_sid) ==
    /\ delivered' # delivered
    /\ delivered'.call_sid = call_sid
    /\ (Heard[delivered'.SpeechResult].speech_result = "" \/ delivered'.Confidence < 30)

\* C31: an unusable speech-result callback (empty transcript or confidence below 0.3) is
\* not classified: no turn with an intent is recorded, the session keeps its status, its
\* confirmed_slot and its turns (so the stage of the next turn), nothing is written, and
\* the answer is the re-prompt with a gather
C31_UnusableLeavesSession ==
    [][\A call_sid \in CallSids :
           UnusableDelivered(call_sid) =>
               /\ conversation_sessions' = conversation_sessions
               /\ conversations' = conversations
               /\ candidates' = candidates
               /\ system_logs' = system_logs
               /\ notifications' = notifications
               /\ response' = Twiml(call_sid, "retry", "retry")]_vars

\* a callback with a transcript but a confidence below 0.3 was re-prompted in the middle
\* of a dialogue, the session still active at the turn it had
C31_RepromptedMidCall ==
    /\ delivered # NoObject
    /\ Heard[delivered.SpeechResult].speech_result # ""
    /\ delivered.Confidence < 30
    /\ Active(delivered.call_sid)
    /\ TurnsOf(delivered.call_sid) = 3
    /\ response = Twiml(delivered.call_sid, "retry", "retry")

\* C32: the governor check is read-only: however often get_candidate_call_status is
\* called, it leaves total_attempts, the call history and the status of every candidate
\* as they are stored
C32_GovernorIsReadOnly ==
    [][\A c \in CandIds :
           /\ AttemptsIn(candidates'[c]) = AttemptsIn(candidates[c])
           /\ candidates'[c].call_history = candidates[c].call_history
           /\ StatusIn(candidates'[c]) = StatusIn(candidates[c])
           /\ candidates'[c] = candidates[c]]_vars

\* the governor was asked twice for a candidate with an attempt on record (by the route
\* and by make_actual_call) and allowed the call both times
C32_AskedTwice ==
    \E r \in Requests :
        /\ procs[r] # NoObject
        /\ procs[r].route = "call-candidate-id"
        /\ procs[r].pc = "create"
        /\ procs[r].decision.can_call
        /\ procs[r].decision.attempts >= 1
        /\ AttemptsIn(candidates[procs[r].candidate_id]) = procs[r].decision.attempts

\* C33: call-started and speech-result callbacks, those that create or resume a session
\* included, never change total_attempts or the call history of a candidate: only a
\* step of a call-placement request does
C33_CallbacksLeaveAttempts ==
    [][procs' = procs =>
           \A c \in CandIds :
               /\ AttemptsIn(candidates'[c]) = AttemptsIn(candidates[c])
               /\ candidates'[c].call_history = candidates[c].call_history]_vars

\* a slot was committed in the dialogue of a call that was placed and recorded: the
\* attempts and the history of the candidate are those of the placement
C33_CommittedAfterPlacement ==
    \E call_sid \in CallSids, c \in CandIds :
        /\ calls[call_sid] # NoObject
        /\ calls[call_sid].dir = "out"
        /\ Quiet
        /\ TurnsOf(call_sid) >= 3
        /\ conversation_sessions[call_sid].status = "completed"
        /\ candidates[c].details.scheduled_slot = conversation_sessions[call_sid].confirmed_slot
        /\ AttemptsIn(candidates[c]) = 2
        /\ candidates[c].call_history = << call_sid, call_sid >>

\* C34: when the session save or the schedule write of a callback fails, the webhook
\* still answers the call with its spoken response for the turn (never the apology of
\* an except block) and the session in memory has the turn appended
C34_WriteFailureKeepsTurn ==
    [][\A call_sid \in CallSids :
           (delivered' # delivered /\ delivered'.call_sid = call_sid)
               => /\ response'.call_sid = call_sid
                  /\ response'.kind \in {"greeting", "gather", "hangup"}
                  /\ response'.say \notin {"error", "difficulties"}
                  /\ conversation_sessions'[call_sid] # NoObject
                  /\ Len(conversation_sessions'[call_sid].turns) = TurnsOf(call_sid) + 1
                  /\ conversation_sessions'[call_sid].turns[TurnsOf(call_sid) + 1].synthetic
                         = (delivered'.webhook = "twilio-voice")]_vars

\* a slot was committed on a callback whose session save and schedule write both
\* failed: the caller hears the confirmation, the session in memory is completed with
\* its three turns, the stored session is the one of the callback before and the
\* candidate has no schedule on record
C34_CommittedInMemoryOnly ==
    \E call_sid \in CallSids, c \in CandIds :
        /\ delivered # NoObject
        /\ delivered.call_sid = call_sid
        /\ delivered.failed = DurableWrites
        /\ response = Twiml(call_sid, "hangup", "scheduled")
        /\ TurnsOf(call_sid) = 3
        /\ conversation_sessions[call_sid].status = "completed"
        /\ conversation_sessions[call_sid].candidate = [src |-> "phone", id |-> c]
        /\ candidates[c].details.scheduled_slot = None
        /\ conversations[SaveDb][call_sid] # NoObject
        /\ Len(conversations[SaveDb][call_sid].turns) < 3

\* C35: once a slot is committed for a stored candidate, GET /candidate-status reports
\* a scheduling status that carries the slot and the overall status
\* interview_scheduled_confirmed when the confirmation email was sent,
\* interview_scheduled_pending when it was not: never a status computed from the attempts
C35_CommittedIsReportedScheduled ==
    \A c \in CandIds :
        (/\ candidates[c].has_ct
         /\ candidates[c].status = "interview_scheduled"
         /\ candidates[c].details.scheduled_slot # None) =>
            LET reported == get_comprehensive_candidate_status(candidates[c])
            IN  /\ candidates[c].details.scheduled_slot
                       \in {reported.scheduling_status.scheduled_date,
                            reported.scheduling_status.interview_slot_confirmed}
                /\ reported.overall_status
                       = IF candidates[c].details.email_sent
                         THEN "interview_scheduled_confirmed"
                         ELSE "interview_scheduled_pending"

\* C36: whenever a speech-result callback is answered with a line and a hangup, the
\* session of that call is completed or failed afterwards: no session is left active
\* once the provider was told to hang up
C36_HangupLeavesNoActiveSession ==
    [][\A call_sid \in CallSids :
           (/\ delivered' # delivered
            /\ delivered'.webhook = "twilio-process"
            /\ delivered'.call_sid = call_sid
            /\ response'.kind = "hangup"
            /\ conversation_sessions'[call_sid] # NoObject) =>
               conversation_sessions'[call_sid].status \in {"completed", "failed"}]_vars

\* C37: in every reachable state a session whose status is completed has a confirmed
\* slot, and that slot is one of the slots of the fixed catalog
C37_CompletedHasCatalogSlot ==
    \A key \in SessionKeys :
        (conversation_sessions[key] # NoObject
         /\ conversation_sessions[key].status = "completed") =>
            /\ conversation_sessions[key].confirmed_slot # None
            /\ \E i \in 1..Len(TIME_SLOTS) :
                   conversation_sessions[key].confirmed_slot = TIME_SLOTS[i]

\* a session that was completed by a commit got further callbacks and went through the
\* turn cap: it is still completed, with its slot
C37_CompletedThroughTheCap ==
    \E call_sid \in CallSids :
        /\ TurnsOf(call_sid) >= 7
        /\ conversation_sessions[call_sid].status = "completed"
        /\ conversation_sessions[call_sid].confirmed_slot = TIME_SLOTS[2]
        /\ response = Twiml(call_sid, "hangup", "cap")

\* C38: a call-tracking update that interleaves with a schedule commit for the same
\* candidate never moves the status of the candidate away from interview_scheduled and
\* never removes the stored interview details: the write of a tracking update leaves
\* the status and the details of a scheduled candidate as they are
C38_TrackingKeepsSchedule ==
    [][\A c \in CandIds :
           (/\ WritesTracking("r1", c)
            /\ StatusIn(candidates[c]) = "interview_scheduled"
            /\ candidates[c].details.scheduled_slot # None) =>
               /\ StatusIn(candidates'[c]) = "interview_scheduled"
               /\ candidates'[c].details = candidates[c].details]_vars

\* C39: the governor denies a call only for a candidate that is interview_scheduled,
\* whose total_attempts has reached max_attempts, or whose id is malformed; for a
\* well-formed id whose document is missing, or whose store read fails, it answers
\* can_call = true with attempts = 0
C39_DeniesOnlyForCause ==
    delivered # NoObject =>
        LET candidate_id == delivered.candidate_id
            call_status == delivered.call_status
            stored == candidate_id \in CandIds /\ delivered.store = "ok"
        IN  /\ ~call_status.can_call =>
                   \/ candidate_id = MalformedId
                   \/ /\ candidate_id \in CandIds
                      /\ \/ StatusIn(candidates[candidate_id]) = "interview_scheduled"
                         \/ AttemptsIn(candidates[candidate_id]) >= LimitIn(candidates[candidate_id])
            /\ (candidate_id # MalformedId /\ ~stored) =>
                   call_status.can_call /\ call_status.attempts = 0

====
